---- MODULE Spec2Model ----
(***************************************************************************)
(* The command protocol engine of cxl/lib/libcxl.c: the Command object,    *)
(* the catalog query, validation, payload allocation and ownership, the    *)
(* transport's ioctl discipline and submit, the label storage area         *)
(* operations built on them, and the Context with its device list.         *)
(*                                                                         *)
(* Ten specifications share  the definitions of the library's functions:   *)
(*   Spec         the program as a caller drives it: cxl_cmd_new_generic   *)
(*                run step by step (pc is its position), then submit, ref  *)
(*                and unref on the Command it returned;                    *)
(*   SpecUnit     the functions applied one at a time to a Command in any  *)
(*                query state, as a unit test of the static functions does;*)
(*   SpecPayload  construction, then the set-payload overrides with every  *)
(*                buffer and size, then unref;                             *)
(*   SpecOwn      construction, then a caller's own buffers installed,     *)
(*                submits, ref and unref down to destruction;              *)
(*   SpecOps      raw construction as one call, then submits that the      *)
(*                device answers with any status code, the typed getters   *)
(*                and unref; and a raw-opcode wrapper as one call;         *)
(*   SpecLsa      the label storage area operations Get, Set and Zero,     *)
(*                each as one call of lsa_op, with everything a call may   *)
(*                meet;                                                    *)
(*   SpecLsaData  the same operations on devices that store what SET_LSA   *)
(*                writes, with offsets, lengths and buffer contents;       *)
(*   SpecCtx      the Context: cxl_new, cxl_ref, cxl_unref and the device  *)
(*                list that the first cxl_memdev_get_first enumerates;     *)
(*   SpecRace     two threads in ref and unref on one Context and one      *)
(*                Command, each call a read and a write of the count;      *)
(*   SpecBound    a Context, its device list and a Command constructed on  *)
(*                one of its handles, each created, used and destroyed in  *)
(*                any order.                                               *)
(***************************************************************************)
EXTENDS Integers, Sequences, FiniteSets, TLC

VARIABLES dev, cmd, heap, pc, req, last, ctx

vars == <<dev, cmd, heap, pc, req, last, ctx>>

(* ------------------------------ bounds -------------------------------- *)

\* longest device catalog
MaxCmds == 2
\* largest maximum payload size a device declares
MaxPayload == 2
\* references a caller takes on one Command
MaxRefs == 2
\* send ioctls issued on one Command
MaxSends == 2
\* payload buffers the library may hold beyond the five objects of a Command
SpareBufs == 0

(* --------------------------- program constants ------------------------ *)

NULL == 0
ENXIO == 6
ENOMEM == 12
EACCES == 13
EINVAL == 22
EOPNOTSUPP == 95
\* the command id of the pass-through catalog entry
CXL_MEM_COMMAND_ID_RAW == 2
\* the label storage commands, numbered by their place in the catalogs that
\* the devices of this model declare
CXL_MEM_COMMAND_ID_GET_LSA == 1
CXL_MEM_COMMAND_ID_SET_LSA == 2
\* sizeof(struct cxl_cmd_set_lsa), the header before the label data: the
\* unit in which the label operations count sizes
SET_LSA_HDR == 1
\* the last index of DEVICE_ERRORS, a table of 23 strings
LAST_DEVICE_ERROR == 22

\* enum cxl_cmd_query_status; calloc leaves a new Command in NotRun
QueryStates == {"NotRun", "Ok", "Unsupported"}

(* ------------------------------- heap --------------------------------- *)

\* addresses calloc hands out: a Command, its catalog buffer, its send
\* structure, its two payload buffers, and SpareBufs more
LibAddrs == 1..(5 + SpareBufs)
\* the buffer the caller owns and passes to the set-payload functions
UserBufs == {5 + SpareBufs + 1}
Addrs == LibAddrs \cup UserBufs

Unused == [live |-> FALSE, kind |-> "none", size |-> 0]

\* heap.cell[a]: the allocation at address a; heap.dfree: free() was called
\* on an address that holds no allocation
HeapInit ==
  [cell |-> [a \in Addrs |->
               IF a \in UserBufs
                 THEN [live |-> TRUE, kind |-> "user", size |-> MaxPayload]
                 ELSE Unused],
   dfree |-> FALSE]

Lowest(S) == CHOOSE a \in S : \A b \in S : a <= b

\* calloc(1, size): the lowest free address, or NULL when the allocator
\* fails (ok = FALSE) or no address is left
calloc(h, kind, size, ok) ==
  LET free == {a \in LibAddrs : ~h.cell[a].live} IN
  IF ~ok \/ free = {}
    THEN [heap |-> h, p |-> NULL]
    ELSE LET a == Lowest(free) IN
         [heap |-> [h EXCEPT !.cell[a] =
                      [live |-> TRUE, kind |-> kind, size |-> size]],
          p |-> a]

\* free(p): free(NULL) does nothing
free(h, p) ==
  IF p = NULL THEN h
  ELSE IF h.cell[p].live THEN [h EXCEPT !.cell[p] = Unused]
  ELSE [h EXCEPT !.dfree = TRUE]

(* ------------------------------ device -------------------------------- *)

\* a catalog entry, struct cxl_command_info (flags are only logged)
Entry(id, sin, sout) == [id |-> id, size_in |-> sin, size_out |-> sout]
ZeroEntry == Entry(0, 0, 0)

\* declared sizes, relative to the device maximum pm: the -1 sentinel, no
\* payload, the maximum itself and one more than the maximum
DeclSizes(pm) == <<-1, 0, pm, pm + 1>>

Rot(k, i) == ((k + i - 2) % 4) + 1

\* a catalog of n commands, ids 1..n in table order as the driver lists its
\* command table. Entry 1 declares sizes a and b of DeclSizes; every
\* later entry declares the next ones in turn, so that entries differ and
\* over all a and b each entry declares every pair of sizes
CatalogOf(pm, n, a, b) ==
  [i \in 1..n |->
     Entry(i, DeclSizes(pm)[Rot(a, i)], DeclSizes(pm)[Rot(b, i)])]

Catalogs(pm) ==
  {CatalogOf(pm, n, a, b) : n \in 0..MaxCmds, a \in 1..4, b \in 1..4}

\* command ids a caller constructs for: every id a catalog may hold and
\* one that no catalog holds
ReqIds == 1..(MaxCmds + 1)

CatalogIds(cat) == {cat[i].id : i \in DOMAIN cat}


\* the node /dev/cxl/<devname> as one transport operation finds it, and how
\* the ioctl ends: t.open_errno and t.ioctl_errno are 0 on success
TransportOk(d) ==
  [asprintf |-> TRUE, open_errno |-> 0, fstat |-> TRUE, chr |-> TRUE,
   major |-> d.major, minor |-> d.minor, ioctl_errno |-> 0]

Transports(d) ==
  LET ok == TransportOk(d) IN
  {ok,
   [ok EXCEPT !.asprintf = FALSE],
   [ok EXCEPT !.open_errno = EACCES],
   [ok EXCEPT !.fstat = FALSE],
   [ok EXCEPT !.chr = FALSE],
   [ok EXCEPT !.major = d.major + 1],
   [ok EXCEPT !.minor = d.minor + 1],
   [ok EXCEPT !.ioctl_errno = EINVAL]}

\* CXL_MEM_QUERY_COMMANDS in the driver: with capacity 0 it writes the number
\* of commands back, otherwise it fills at most capacity entries
DevQuery(q, cat) ==
  IF q.n_commands = 0
    THEN [q EXCEPT !.n_commands = Len(cat)]
    ELSE [q EXCEPT !.commands =
            [i \in 1..q.n_commands |->
               IF i <= Len(cat) THEN cat[i] ELSE q.commands[i]]]

\* CXL_MEM_SEND_COMMAND in the driver: the device's status goes to retval and
\* the length of the output it produced, at most the size offered, to out.size
DevSend(s, dv) ==
  [s EXCEPT !.retval = dv.retval,
            !.out_size = IF dv.full THEN s.out_size ELSE 0]

(* ------------------------------ Command ------------------------------- *)

NoQuery == [addr |-> NULL, n_commands |-> 0, commands |-> <<>>]

NoSend ==
  [addr |-> NULL, id |-> 0, in_payload |-> NULL, in_size |-> 0,
   out_payload |-> NULL, out_size |-> 0, retval |-> 0, opcode |-> 0]

\* struct cxl_cmd as calloc leaves it; fetches and sends count the ioctls
\* issued on behalf of the Command, fds the descriptors that the transport
\* operations made for it hold open; memdev: the address of the Memory
\* Device Handle the Command was constructed on, where a caller passed one
NoCmd ==
  [addr |-> NULL, refcount |-> 0, query_status |-> "NotRun", memdev |-> NULL,
   query |-> NoQuery, query_idx |-> 0, send |-> NoSend,
   input_payload |-> NULL, output_payload |-> NULL, status |-> 0,
   fetches |-> 0, sends |-> 0, fds |-> 0]

cxl_cmd_ref(c) == [c EXCEPT !.refcount = c.refcount + 1]

cxl_cmd_new(h, ok) ==
  LET r == calloc(h, "cmd", 1, ok) IN
  IF r.p = NULL
    THEN [cmd |-> NoCmd, heap |-> h]
    ELSE [cmd |-> cxl_cmd_ref([NoCmd EXCEPT !.addr = r.p]), heap |-> r.heap]

\* cxl_cmd_unref as it would be if it forgot the send structure
cxl_cmd_unref_nosend(c, h) ==
  IF c.addr = NULL THEN [cmd |-> c, heap |-> h]
  ELSE IF c.refcount - 1 = 0
    THEN [cmd |-> NoCmd,
          heap |-> free(free(free(free(h, c.query.addr),
                         c.input_payload), c.output_payload), c.addr)]
    ELSE [cmd |-> [c EXCEPT !.refcount = c.refcount - 1], heap |-> h]

\* cxl_cmd_unref as it would be if the Command owned its device and
\* released it with itself
cxl_cmd_unref_owning(c, h) ==
  IF c.addr = NULL THEN [cmd |-> c, heap |-> h]
  ELSE IF c.refcount - 1 = 0
    THEN [cmd |-> NoCmd,
          heap |-> free(free(free(free(free(free(h, c.memdev), c.query.addr),
                         c.send.addr), c.input_payload), c.output_payload),
                        c.addr)]
    ELSE [cmd |-> [c EXCEPT !.refcount = c.refcount - 1], heap |-> h]

cxl_cmd_unref(c, h) ==
  IF c.addr = NULL THEN [cmd |-> c, heap |-> h]
  ELSE IF c.refcount - 1 = 0
    THEN [cmd |-> NoCmd,
          heap |-> free(free(free(free(free(h, c.query.addr), c.send.addr),
                         c.input_payload), c.output_payload), c.addr)]
    ELSE [cmd |-> [c EXCEPT !.refcount = c.refcount - 1], heap |-> h]

cxl_cmd_alloc_query(c, h, num_cmds, ok) ==
  LET h1 == IF c.query.addr # NULL THEN free(h, c.query.addr) ELSE h
      r  == calloc(h1, "query", num_cmds, ok)
  IN IF r.p = NULL
       THEN [cmd |-> [c EXCEPT !.query = NoQuery], heap |-> r.heap,
             rc |-> -ENOMEM]
       ELSE [cmd |-> [c EXCEPT !.query =
                        [addr |-> r.p, n_commands |-> num_cmds,
                         commands |-> [i \in 1..num_cmds |-> ZeroEntry]]],
             heap |-> r.heap, rc |-> 0]

\* __do_cmd as it would be if a non-zero device status made it fail
ioctl_do_cmd_status(c, ioctl_cmd, t, d, dv) ==
  IF ioctl_cmd = "QUERY"
    THEN IF t.ioctl_errno # 0
           THEN [cmd |-> [c EXCEPT !.fetches = c.fetches + 1],
                 rc |-> -t.ioctl_errno]
           ELSE [cmd |-> [c EXCEPT !.fetches = c.fetches + 1,
                                   !.query = DevQuery(c.query, d.catalog)],
                 rc |-> 0]
  ELSE IF ioctl_cmd = "SEND"
    THEN IF t.ioctl_errno # 0
           THEN [cmd |-> [c EXCEPT !.sends = c.sends + 1],
                 rc |-> -t.ioctl_errno]
           ELSE [cmd |-> [c EXCEPT !.sends = c.sends + 1,
                                   !.send = DevSend(c.send, dv)],
                 rc |-> IF dv.retval > 1 THEN -EINVAL ELSE 0]
  ELSE [cmd |-> c, rc |-> -EINVAL]

\* the ioctl itself: rc, and the buffer as the driver leaves it
ioctl_do_cmd(c, ioctl_cmd, t, d, dv) ==
  IF ioctl_cmd = "QUERY"
    THEN IF t.ioctl_errno # 0
           THEN [cmd |-> [c EXCEPT !.fetches = c.fetches + 1],
                 rc |-> -t.ioctl_errno]
           ELSE [cmd |-> [c EXCEPT !.fetches = c.fetches + 1,
                                   !.query = DevQuery(c.query, d.catalog)],
                 rc |-> 0]
  ELSE IF ioctl_cmd = "SEND"
    THEN IF t.ioctl_errno # 0
           THEN [cmd |-> [c EXCEPT !.sends = c.sends + 1],
                 rc |-> -t.ioctl_errno]
           ELSE [cmd |-> [c EXCEPT !.sends = c.sends + 1,
                                   !.send = DevSend(c.send, dv)],
                 rc |-> 0]
  ELSE [cmd |-> c, rc |-> -EINVAL]

\* open() returned a descriptor; close() gave one back
opened(c) == [c EXCEPT !.fds = c.fds + 1]
closed(c) == [c EXCEPT !.fds = c.fds - 1]

\* do_cmd as it would be if the minor number were not compared
do_cmd_nominor(c, ioctl_cmd, t, d, dv) ==
  IF ~t.asprintf THEN [cmd |-> c, rc |-> -ENOMEM, issued |-> FALSE]
  ELSE IF t.open_errno # 0
    THEN [cmd |-> c, rc |-> -t.open_errno, issued |-> FALSE]
  ELSE IF t.fstat /\ t.chr /\ t.major = d.major
    THEN LET r == ioctl_do_cmd(opened(c), ioctl_cmd, t, d, dv) IN
         [cmd |-> closed(r.cmd), rc |-> r.rc, issued |-> TRUE]
  ELSE [cmd |-> closed(opened(c)), rc |-> -ENXIO, issued |-> FALSE]

\* do_cmd as it would be if the identity mismatch returned at once
do_cmd_leak(c, ioctl_cmd, t, d, dv) ==
  IF ~t.asprintf THEN [cmd |-> c, rc |-> -ENOMEM, issued |-> FALSE]
  ELSE IF t.open_errno # 0
    THEN [cmd |-> c, rc |-> -t.open_errno, issued |-> FALSE]
  ELSE IF t.fstat /\ t.chr /\ t.major = d.major /\ t.minor = d.minor
    THEN LET r == ioctl_do_cmd(opened(c), ioctl_cmd, t, d, dv) IN
         [cmd |-> closed(r.cmd), rc |-> r.rc, issued |-> TRUE]
  ELSE [cmd |-> opened(c), rc |-> -ENXIO, issued |-> FALSE]

\* do_cmd: open the node, check that it is the character device the handle
\* recorded, and only then issue the ioctl; close the descriptor on the way
\* out of either branch. issued tells whether the ioctl was invoked
do_cmd(c, ioctl_cmd, t, d, dv) ==
  IF ~t.asprintf THEN [cmd |-> c, rc |-> -ENOMEM, issued |-> FALSE]
  ELSE IF t.open_errno # 0
    THEN [cmd |-> c, rc |-> -t.open_errno, issued |-> FALSE]
  ELSE IF t.fstat /\ t.chr /\ t.major = d.major /\ t.minor = d.minor
    THEN LET r == ioctl_do_cmd(opened(c), ioctl_cmd, t, d, dv) IN
         [cmd |-> closed(r.cmd), rc |-> r.rc, issued |-> TRUE]
  ELSE [cmd |-> closed(opened(c)), rc |-> -ENXIO, issued |-> FALSE]

NoDv == [retval |-> 0, full |-> TRUE]

\* alloc_do_query as it would be if it dropped what do_cmd returned
alloc_do_query_swallow(c, h, num_cmds, ok, t, d) ==
  LET a == cxl_cmd_alloc_query(c, h, num_cmds, ok) IN
  IF a.rc # 0
    THEN [cmd |-> a.cmd, heap |-> a.heap, rc |-> a.rc, caps |-> <<>>,
          ts |-> <<>>]
    ELSE LET r == do_cmd(a.cmd, "QUERY", t, d, NoDv) IN
         [cmd |-> r.cmd, heap |-> a.heap, rc |-> 0,
          caps |-> IF r.issued THEN <<a.cmd.query.n_commands>> ELSE <<>>,
          ts |-> <<t>>]

\* caps: the capacity handed to the ioctl, when one was issued; ts: the
\* transport do_cmd met, when it was called
alloc_do_query(c, h, num_cmds, ok, t, d) ==
  LET a == cxl_cmd_alloc_query(c, h, num_cmds, ok) IN
  IF a.rc # 0
    THEN [cmd |-> a.cmd, heap |-> a.heap, rc |-> a.rc, caps |-> <<>>,
          ts |-> <<>>]
    ELSE LET r == do_cmd(a.cmd, "QUERY", t, d, NoDv) IN
         [cmd |-> r.cmd, heap |-> a.heap, rc |-> r.rc,
          caps |-> IF r.issued THEN <<a.cmd.query.n_commands>> ELSE <<>>,
          ts |-> <<t>>]

\* cxl_cmd_do_query as it would be if the second fetch asked with capacity 0
\* again
cxl_cmd_do_query_samecap(c, h, e, d) ==
  IF c.query_status = "Ok"
    THEN [cmd |-> c, heap |-> h, rc |-> 0, caps |-> <<>>, rcs |-> <<>>,
          ts |-> <<>>]
  ELSE IF c.query_status = "Unsupported"
    THEN [cmd |-> c, heap |-> h, rc |-> -EOPNOTSUPP, caps |-> <<>>,
          rcs |-> <<>>, ts |-> <<>>]
  ELSE
    LET q1 == alloc_do_query(c, h, 0, e.ok1, e.t1, d) IN
    IF q1.rc # 0
      THEN [cmd |-> q1.cmd, heap |-> q1.heap, rc |-> q1.rc,
            caps |-> q1.caps, rcs |-> <<q1.rc>>, ts |-> q1.ts]
      ELSE LET q2 == alloc_do_query(q1.cmd, q1.heap, 0, e.ok2, e.t2, d)
           IN [cmd |-> q2.cmd, heap |-> q2.heap, rc |-> q2.rc,
               caps |-> q1.caps \o q2.caps, rcs |-> <<q1.rc, q2.rc>>,
               ts |-> q1.ts \o q2.ts]

\* cxl_cmd_do_query as it would be without the switch on the query state
cxl_cmd_do_query_again(c, h, e, d) ==
  LET q1 == alloc_do_query(c, h, 0, e.ok1, e.t1, d) IN
  IF q1.rc # 0
    THEN [cmd |-> q1.cmd, heap |-> q1.heap, rc |-> q1.rc,
          caps |-> q1.caps, rcs |-> <<q1.rc>>, ts |-> q1.ts]
    ELSE LET n_commands == q1.cmd.query.n_commands
             q2 == alloc_do_query(q1.cmd, q1.heap, n_commands, e.ok2,
                                  e.t2, d)
         IN [cmd |-> q2.cmd, heap |-> q2.heap, rc |-> q2.rc,
             caps |-> q1.caps \o q2.caps, rcs |-> <<q1.rc, q2.rc>>,
             ts |-> q1.ts \o q2.ts]

\* e: what the two allocations and the two transport operations meet;
\* caps: the capacities of the fetches issued, rcs: what each
\* alloc_do_query returned
cxl_cmd_do_query(c, h, e, d) ==
  IF c.query_status = "Ok"
    THEN [cmd |-> c, heap |-> h, rc |-> 0, caps |-> <<>>, rcs |-> <<>>,
          ts |-> <<>>]
  ELSE IF c.query_status = "Unsupported"
    THEN [cmd |-> c, heap |-> h, rc |-> -EOPNOTSUPP, caps |-> <<>>,
          rcs |-> <<>>, ts |-> <<>>]
  ELSE
    LET q1 == alloc_do_query(c, h, 0, e.ok1, e.t1, d) IN
    IF q1.rc # 0
      THEN [cmd |-> q1.cmd, heap |-> q1.heap, rc |-> q1.rc,
            caps |-> q1.caps, rcs |-> <<q1.rc>>, ts |-> q1.ts]
      ELSE LET n_commands == q1.cmd.query.n_commands
               q2 == alloc_do_query(q1.cmd, q1.heap, n_commands, e.ok2,
                                    e.t2, d)
           IN [cmd |-> q2.cmd, heap |-> q2.heap, rc |-> q2.rc,
               caps |-> q1.caps \o q2.caps, rcs |-> <<q1.rc, q2.rc>>,
               ts |-> q1.ts \o q2.ts]

\* cxl_cmd_validate as it would be if the scan compared nothing and stopped
\* at the first entry
cxl_cmd_validate_first(c, cmd_id) ==
  IF c.query.n_commands > 0
    THEN [cmd |-> [c EXCEPT !.query_idx = 0, !.query_status = "Ok"],
          rc |-> 0]
    ELSE [cmd |-> [c EXCEPT !.query_status = "Unsupported"],
          rc |-> -EOPNOTSUPP]

\* the first entry with the requested id, as the scan meets it
cxl_cmd_validate(c, cmd_id) ==
  LET hits == {i \in 1..c.query.n_commands : c.query.commands[i].id = cmd_id}
  IN IF hits # {}
       THEN [cmd |-> [c EXCEPT !.query_idx = Lowest(hits) - 1,
                               !.query_status = "Ok"],
             rc |-> 0]
       ELSE [cmd |-> [c EXCEPT !.query_status = "Unsupported"],
             rc |-> -EOPNOTSUPP]


\* resolve_size_out as it would be if the sentinel stood for no output
resolve_size_out_zero(size_out, d) ==
  IF size_out < 0 THEN 0 ELSE size_out

\* a negative declared output size stands for the device maximum
resolve_size_out(size_out, d) ==
  IF size_out < 0 THEN d.payload_max ELSE size_out

\* e.ok_send, e.ok_in, e.ok_out: whether each calloc succeeds
cxl_cmd_alloc_send(c, h, cmd_id, e, d) ==
  IF c.query.addr = NULL THEN [cmd |-> c, heap |-> h, rc |-> -EINVAL]
  ELSE
  LET cinfo == c.query.commands[c.query_idx + 1]
      s == calloc(h, "send", 1, e.ok_send)
  IN
  IF s.p = NULL THEN [cmd |-> c, heap |-> h, rc |-> -ENOMEM]
  ELSE
  LET c1 == [c EXCEPT !.send = [NoSend EXCEPT !.addr = s.p]] IN
  IF cinfo.id # cmd_id THEN [cmd |-> c1, heap |-> s.heap, rc |-> -EINVAL]
  ELSE
  LET c2 == [c1 EXCEPT !.send.id = cmd_id]
      i  == calloc(s.heap, "in", cinfo.size_in, e.ok_in)
  IN
  IF cinfo.size_in > 0 /\ i.p = NULL
    THEN [cmd |-> [c2 EXCEPT !.input_payload = NULL], heap |-> s.heap,
          rc |-> -ENOMEM]
  ELSE
  LET c3 == IF cinfo.size_in > 0
              THEN [c2 EXCEPT !.input_payload = i.p,
                              !.send.in_payload = i.p,
                              !.send.in_size = cinfo.size_in]
              ELSE c2
      h3 == IF cinfo.size_in > 0 THEN i.heap ELSE s.heap
      size_out == resolve_size_out(cinfo.size_out, d)
      c4 == [c3 EXCEPT !.query.commands[c.query_idx + 1].size_out = size_out]
      o  == calloc(h3, "out", size_out, e.ok_out)
  IN
  IF size_out > 0 /\ o.p = NULL
    THEN [cmd |-> [c4 EXCEPT !.output_payload = NULL], heap |-> h3,
          rc |-> -ENOMEM]
  ELSE IF size_out > 0
    THEN [cmd |-> [c4 EXCEPT !.output_payload = o.p,
                             !.send.out_payload = o.p,
                             !.send.out_size = size_out],
          heap |-> o.heap, rc |-> 0]
  ELSE [cmd |-> c4, heap |-> h3, rc |-> 0]

\* cxl_cmd_set_input_payload as it would be if it recorded the caller's
\* buffer as the Command's own
cxl_cmd_set_input_payload_own(c, h, buf, size, ok, d) ==
  IF size > d.payload_max \/ size < 0
    THEN [cmd |-> c, heap |-> h, rc |-> -EINVAL]
  ELSE IF buf = NULL
    THEN LET r == calloc(h, "in", size, ok) IN
         IF r.p = NULL
           THEN [cmd |-> [c EXCEPT !.input_payload = NULL], heap |-> h,
                 rc |-> -ENOMEM]
           ELSE [cmd |-> [c EXCEPT !.input_payload = r.p,
                                   !.send.in_payload = r.p,
                                   !.send.in_size = size],
                 heap |-> r.heap, rc |-> 0]
  ELSE [cmd |-> [c EXCEPT !.input_payload = buf, !.send.in_payload = buf,
                          !.send.in_size = size],
        heap |-> h, rc |-> 0]

cxl_cmd_set_input_payload(c, h, buf, size, ok, d) ==
  IF size > d.payload_max \/ size < 0
    THEN [cmd |-> c, heap |-> h, rc |-> -EINVAL]
  ELSE IF buf = NULL
    THEN LET r == calloc(h, "in", size, ok) IN
         IF r.p = NULL
           THEN [cmd |-> [c EXCEPT !.input_payload = NULL], heap |-> h,
                 rc |-> -ENOMEM]
           ELSE [cmd |-> [c EXCEPT !.input_payload = r.p,
                                   !.send.in_payload = r.p,
                                   !.send.in_size = size],
                 heap |-> r.heap, rc |-> 0]
  ELSE [cmd |-> [c EXCEPT !.send.in_payload = buf, !.send.in_size = size],
        heap |-> h, rc |-> 0]

\* cxl_cmd_set_output_payload as it would be without the test for a
\* negative size
cxl_cmd_set_output_payload_nolower(c, h, buf, size, ok, d) ==
  IF size > d.payload_max
    THEN [cmd |-> c, heap |-> h, rc |-> -EINVAL]
  ELSE IF buf = NULL
    THEN LET r == calloc(h, "out", size, ok) IN
         IF r.p = NULL
           THEN [cmd |-> [c EXCEPT !.output_payload = NULL], heap |-> h,
                 rc |-> -ENOMEM]
           ELSE [cmd |-> [c EXCEPT !.output_payload = r.p,
                                   !.send.out_payload = r.p,
                                   !.send.out_size = size],
                 heap |-> r.heap, rc |-> 0]
  ELSE [cmd |-> [c EXCEPT !.send.out_payload = buf, !.send.out_size = size],
        heap |-> h, rc |-> 0]

cxl_cmd_set_output_payload(c, h, buf, size, ok, d) ==
  IF size > d.payload_max \/ size < 0
    THEN [cmd |-> c, heap |-> h, rc |-> -EINVAL]
  ELSE IF buf = NULL
    THEN LET r == calloc(h, "out", size, ok) IN
         IF r.p = NULL
           THEN [cmd |-> [c EXCEPT !.output_payload = NULL], heap |-> h,
                 rc |-> -ENOMEM]
           ELSE [cmd |-> [c EXCEPT !.output_payload = r.p,
                                   !.send.out_payload = r.p,
                                   !.send.out_size = size],
                 heap |-> r.heap, rc |-> 0]
  ELSE [cmd |-> [c EXCEPT !.send.out_payload = buf, !.send.out_size = size],
        heap |-> h, rc |-> 0]

\* cxl_cmd_submit as it would be without the switch on the query state
cxl_cmd_submit_unguarded(c, t, d, dv) ==
  LET r == do_cmd(c, "SEND", t, d, dv) IN
  [cmd |-> [r.cmd EXCEPT !.status = r.cmd.send.retval], rc |-> r.rc,
   issued |-> r.issued]

\* cxl_cmd_submit as it would be if a failed send sent the Command back to
\* be queried again
cxl_cmd_submit_requery(c, t, d, dv) ==
  IF c.query_status = "Unsupported"
    THEN [cmd |-> c, rc |-> -EOPNOTSUPP, issued |-> FALSE]
  ELSE IF c.query_status = "NotRun"
    THEN [cmd |-> c, rc |-> -EINVAL, issued |-> FALSE]
  ELSE LET r == do_cmd(c, "SEND", t, d, dv) IN
       [cmd |-> [r.cmd EXCEPT !.status = r.cmd.send.retval,
                   !.query_status = IF r.rc < 0 THEN "NotRun" ELSE "Ok"],
        rc |-> r.rc, issued |-> r.issued]

\* cxl_cmd_submit as it would be if a failed send were recorded as the
\* status
cxl_cmd_submit_rcstatus(c, t, d, dv) ==
  IF c.query_status = "Unsupported"
    THEN [cmd |-> c, rc |-> -EOPNOTSUPP, issued |-> FALSE]
  ELSE IF c.query_status = "NotRun"
    THEN [cmd |-> c, rc |-> -EINVAL, issued |-> FALSE]
  ELSE LET r == do_cmd(c, "SEND", t, d, dv) IN
       [cmd |-> [r.cmd EXCEPT !.status = IF r.rc < 0 THEN r.rc
                                          ELSE r.cmd.send.retval],
        rc |-> r.rc, issued |-> r.issued]

\* the statuses Retry Required and Busy of DEVICE_ERRORS
RetryCodes == {5, 6}

\* cxl_cmd_submit as it would be if it sent once more after a status that
\* asks for a retry
cxl_cmd_submit_retry(c, t, d, dv) ==
  IF c.query_status = "Unsupported"
    THEN [cmd |-> c, rc |-> -EOPNOTSUPP, issued |-> FALSE]
  ELSE IF c.query_status # "Ok"
    THEN [cmd |-> c, rc |-> -EINVAL, issued |-> FALSE]
  ELSE LET r == do_cmd(c, "SEND", t, d, dv) IN
       IF r.rc = 0 /\ r.cmd.send.retval \in RetryCodes
         THEN LET again == do_cmd(r.cmd, "SEND", t, d, dv) IN
              [cmd |-> [again.cmd EXCEPT !.status = again.cmd.send.retval],
               rc |-> again.rc, issued |-> TRUE]
         ELSE [cmd |-> [r.cmd EXCEPT !.status = r.cmd.send.retval],
               rc |-> r.rc, issued |-> r.issued]

\* issued: whether the send ioctl was invoked
cxl_cmd_submit(c, t, d, dv) ==
  IF c.query_status = "Unsupported"
    THEN [cmd |-> c, rc |-> -EOPNOTSUPP, issued |-> FALSE]
  ELSE IF c.query_status = "NotRun"
    THEN [cmd |-> c, rc |-> -EINVAL, issued |-> FALSE]
  ELSE IF c.query_status # "Ok"
    THEN [cmd |-> c, rc |-> -EINVAL, issued |-> FALSE]
  ELSE LET r == do_cmd(c, "SEND", t, d, dv) IN
       [cmd |-> [r.cmd EXCEPT !.status = r.cmd.send.retval], rc |-> r.rc,
        issued |-> r.issued]

cxl_cmd_get_mbox_status(c) == c.status

cxl_cmd_get_out_size(c) == c.send.out_size

\* the typed accessors of a Command built for command N. cmd_get_void
\* returns the output buffer or NULL; cmd_get_int returns a field read from
\* the output buffer (data = TRUE, from holds the buffer) or a code
cmd_get_void(c, N) ==
  IF c.send.id # N THEN NULL
  ELSE IF c.status < 0 THEN NULL
  ELSE c.send.out_payload

cmd_get_int(c, N) ==
  IF c.send.id # N THEN [data |-> FALSE, rc |-> EINVAL, from |-> NULL]
  ELSE IF c.status < 0 THEN [data |-> FALSE, rc |-> c.status, from |-> NULL]
  ELSE [data |-> TRUE, rc |-> 0, from |-> c.send.out_payload]

\* what a 32-bit field of an output payload may hold, as le32_to_cpu and
\* the conversion to int yield it
FieldValues == {-EINVAL, 0, 1, EINVAL}

\* the int that a getter built with cmd_get_int returns to its caller when
\* the field it decodes holds f; N: the id its Commands are built for
cmd_health_get_int(c, N, f) ==
  LET r == cmd_get_int(c, N) IN IF r.data THEN f ELSE r.rc


(* --------------------- constructors as whole calls -------------------- *)

\* e.ok_new, e.q, e.s: what cxl_cmd_new, the query and the allocation for
\* send meet. errno: what the constructor stores in errno, 0 when it stores
\* nothing; fetches: the catalog fetches issued on the way.
\* The steps of cxl_cmd_new_generic, last first; each takes what the step
\* before it returned

\* the fail label: unref, errno
new_generic_fail(c, h, errno) ==
  LET u == cxl_cmd_unref(c, h) IN
  [cmd |-> u.cmd, heap |-> u.heap, errno |-> errno, fetches |-> c.fetches]

\* after cxl_cmd_alloc_send returned a
new_generic_allocated(a) ==
  IF a.rc # 0
    THEN new_generic_fail(a.cmd, a.heap, -a.rc)
    ELSE [cmd |-> a.cmd, heap |-> a.heap, errno |-> 0,
          fetches |-> a.cmd.fetches]

\* after cxl_cmd_validate returned v, on the heap h
new_generic_validated(v, h, cmd_id, e, d) ==
  IF v.rc # 0
    THEN new_generic_fail(v.cmd, h, -v.rc)
    ELSE new_generic_allocated(cxl_cmd_alloc_send(v.cmd, h, cmd_id, e.s, d))

\* the same step as it would be if a failed query left the Command to
\* the caller
new_generic_queried_keep(q, cmd_id, e, d) ==
  IF q.rc # 0
    THEN [cmd |-> q.cmd, heap |-> q.heap, errno |-> 0,
          fetches |-> q.cmd.fetches]
    ELSE new_generic_validated(cxl_cmd_validate(q.cmd, cmd_id), q.heap,
                               cmd_id, e, d)

\* after cxl_cmd_do_query returned q: a failed query stores no errno
new_generic_queried(q, cmd_id, e, d) ==
  IF q.rc # 0
    THEN new_generic_fail(q.cmd, q.heap, 0)
    ELSE new_generic_validated(cxl_cmd_validate(q.cmd, cmd_id), q.heap,
                               cmd_id, e, d)

\* after cxl_cmd_new returned n
new_generic_created(n, h, cmd_id, e, d) ==
  IF n.cmd.addr = NULL
    THEN [cmd |-> NoCmd, heap |-> h, errno |-> 0, fetches |-> 0]
    ELSE new_generic_queried(cxl_cmd_do_query(n.cmd, n.heap, e.q, d),
                             cmd_id, e, d)

cxl_cmd_new_generic(h, cmd_id, e, d) ==
  new_generic_created(cxl_cmd_new(h, e.ok_new), h, cmd_id, e, d)

\* the same step as it would be if the opcode went where the id is
raw_opcode_asid(g, opcode) ==
  IF g.cmd.addr = NULL THEN g
  ELSE [g EXCEPT !.cmd.send.id = opcode]

\* cxl_cmd_new_raw after cxl_cmd_new_generic returned g: the opcode goes
\* into the send structure
raw_opcode(g, opcode) ==
  IF g.cmd.addr = NULL THEN g
  ELSE [g EXCEPT !.cmd.send.opcode = opcode]

\* cxl_cmd_new_raw as it would be if only negative opcodes were refused
cxl_cmd_new_raw_zero(h, opcode, e, d) ==
  IF opcode < 0
    THEN [cmd |-> NoCmd, heap |-> h, errno |-> EINVAL, fetches |-> 0]
    ELSE raw_opcode(cxl_cmd_new_generic(h, CXL_MEM_COMMAND_ID_RAW, e, d),
                    opcode)

cxl_cmd_new_raw(h, opcode, e, d) ==
  IF opcode <= 0
    THEN [cmd |-> NoCmd, heap |-> h, errno |-> EINVAL, fetches |-> 0]
    ELSE raw_opcode(cxl_cmd_new_generic(h, CXL_MEM_COMMAND_ID_RAW, e, d),
                    opcode)

(* ------------------------------ Context ------------------------------- *)

\* most entries the discovery reports in one enumeration
MaxDevs == 2
\* most references a Context is given
MaxCtxRefs == 3

\* struct cxl_ctx. memdevs: the list of Memory Device Handles, its top
\* first, each with its id and the address of its struct cxl_memdev; parses:
\* the calls of sysfs_device_parse made for the Context
NoCtx ==
  [addr |-> NULL, refcount |-> 0, memdevs_init |-> 0, memdevs |-> <<>>,
   parses |-> 0]

\* cxl_new; ok: calloc succeeds, kmod: check_kmod accepts the kmod context.
\* On a failure *ctx is not written
cxl_new(h, ok, kmod) ==
  LET c == calloc(h, "ctx", 1, ok) IN
  IF c.p = NULL THEN [ctx |-> NoCtx, heap |-> h, rc |-> -ENOMEM]
  ELSE IF ~kmod
    THEN [ctx |-> NoCtx, heap |-> free(c.heap, c.p), rc |-> -ENXIO]
  ELSE [ctx |-> [NoCtx EXCEPT !.addr = c.p, !.refcount = 1],
        heap |-> c.heap, rc |-> 0]

\* cxl_ref as it would be if it left the count alone
cxl_ref_uncounted(c) == c

cxl_ref(c) ==
  IF c.addr = NULL THEN c ELSE [c EXCEPT !.refcount = c.refcount + 1]

list_del_from(l, a) ==
  LET Other(m) == m.addr # a IN SelectSeq(l, Other)

\* free_memdev(memdev, head): the strings the handle owns live and die with
\* its struct, and are one cell with it
free_memdev(c, h, a, head) ==
  [ctx |-> IF head THEN [c EXCEPT !.memdevs = list_del_from(c.memdevs, a)]
           ELSE c,
   heap |-> free(h, a)]

\* the loop of cxl_unref over the list
RECURSIVE free_memdevs(_, _)
free_memdevs(c, h) ==
  IF c.memdevs = <<>> THEN [ctx |-> c, heap |-> h]
  ELSE LET r == free_memdev(c, h, Head(c.memdevs).addr, TRUE) IN
       free_memdevs(r.ctx, r.heap)

\* cxl_unref as it would be if it freed the Context and left the handles
cxl_unref_ctx_only(c, h) ==
  IF c.addr = NULL THEN [ctx |-> c, heap |-> h]
  ELSE IF c.refcount - 1 > 0
    THEN [ctx |-> [c EXCEPT !.refcount = c.refcount - 1], heap |-> h]
  ELSE [ctx |-> NoCtx, heap |-> free(h, c.addr)]

\* cxl_unref: the Context that reached 0 is gone, and what the caller still
\* holds is no Context
cxl_unref(c, h) ==
  IF c.addr = NULL THEN [ctx |-> c, heap |-> h]
  ELSE IF c.refcount - 1 > 0
    THEN [ctx |-> [c EXCEPT !.refcount = c.refcount - 1], heap |-> h]
  ELSE LET r == free_memdevs([c EXCEPT !.refcount = c.refcount - 1], h) IN
       [ctx |-> NoCtx, heap |-> free(r.heap, c.addr)]

\* how one add_cxl_memdev ends: a handle is made, or there is no memory for
\* the path or for the handle, or the node or an attribute cannot be read
AddOutcomes == {"ok", "nopath", "nomem", "read"}

\* add_cxl_memdev as it would be without the search for a handle of the
\* same id
add_cxl_memdev_nodup(c, h, id, out) ==
  LET p == calloc(h, "path", 1, out # "nopath") IN
  IF p.p = NULL THEN [ctx |-> c, heap |-> h, ret |-> NULL]
  ELSE
  LET m == calloc(p.heap, "memdev", 1, out # "nomem") IN
  IF m.p = NULL THEN [ctx |-> c, heap |-> free(p.heap, p.p), ret |-> NULL]
  ELSE IF out = "read"
    THEN [ctx |-> c, heap |-> free(free(m.heap, m.p), p.p), ret |-> NULL]
  ELSE [ctx |-> [c EXCEPT !.memdevs = <<[id |-> id, addr |-> m.p]>> \o @],
        heap |-> free(m.heap, p.p), ret |-> m.p]

\* add_cxl_memdev(parent, id, cxlmem_base); ret: what it returns
add_cxl_memdev(c, h, id, out) ==
  LET p == calloc(h, "path", 1, out # "nopath") IN
  IF p.p = NULL THEN [ctx |-> c, heap |-> h, ret |-> NULL]
  ELSE
  LET m == calloc(p.heap, "memdev", 1, out # "nomem") IN
  IF m.p = NULL THEN [ctx |-> c, heap |-> free(p.heap, p.p), ret |-> NULL]
  ELSE IF out = "read"
    THEN [ctx |-> c, heap |-> free(free(m.heap, m.p), p.p), ret |-> NULL]
  ELSE IF \E i \in DOMAIN c.memdevs : c.memdevs[i].id = id
    THEN LET i == CHOOSE k \in DOMAIN c.memdevs :
                    /\ c.memdevs[k].id = id
                    /\ \A j \in 1..(k - 1) : c.memdevs[j].id # id
         IN [ctx |-> c,
             heap |-> free(free_memdev(c, m.heap, m.p, FALSE).heap, p.p),
             ret |-> c.memdevs[i].addr]
  ELSE [ctx |-> [c EXCEPT !.memdevs = <<[id |-> id, addr |-> m.p]>> \o @],
        heap |-> free(m.heap, p.p), ret |-> m.p]

\* sysfs_device_parse as cxl_memdevs_init uses it: scan is what it finds,
\* entry by entry, and how add_cxl_memdev ends for each; an entry for which
\* add_cxl_memdev returns NULL is passed over; rets: what add_cxl_memdev
\* returned, entry by entry
RECURSIVE sysfs_device_parse(_, _, _, _)
sysfs_device_parse(c, h, scan, rets) ==
  IF scan = <<>> THEN [ctx |-> c, heap |-> h, rets |-> rets]
  ELSE LET r == add_cxl_memdev(c, h, Head(scan).id, Head(scan).out) IN
       sysfs_device_parse(r.ctx, r.heap, Tail(scan), Append(rets, r.ret))

\* cxl_memdevs_init as it would be if an enumeration that found nothing
\* were run again
cxl_memdevs_init_until_found(c, h, scan) ==
  IF c.memdevs_init # 0 /\ c.memdevs # <<>>
    THEN [ctx |-> c, heap |-> h, rets |-> <<>>]
  ELSE sysfs_device_parse([c EXCEPT !.memdevs_init = 1,
                                    !.parses = c.parses + 1], h, scan, <<>>)

cxl_memdevs_init(c, h, scan) ==
  IF c.memdevs_init # 0 THEN [ctx |-> c, heap |-> h, rets |-> <<>>]
  ELSE sysfs_device_parse([c EXCEPT !.memdevs_init = 1,
                                    !.parses = c.parses + 1], h, scan, <<>>)

list_top(l) == IF l = <<>> THEN NULL ELSE l[1].addr

cxl_memdev_get_first(c, h, scan) ==
  LET r == cxl_memdevs_init(c, h, scan) IN
  [ctx |-> r.ctx, heap |-> r.heap, rets |-> r.rets,
   ret |-> list_top(r.ctx.memdevs)]

\* the handle behind the one at address a, which is in the list
list_next(l, a) ==
  LET i == CHOOSE k \in DOMAIN l : l[k].addr = a IN
  IF i < Len(l) THEN l[i + 1].addr ELSE NULL

cxl_memdev_get_next(c, a) == list_next(c.memdevs, a)

(* ------------------------- what a step leaves ------------------------- *)

\* last: the operation of the latest step and what it returned; id: the
\* command id it was given; caps, rcs, ts: those of a query (ts: the
\* transports it met); inp, outp: the payload pointers of the send structure
\* as an unref found them; opcode, errno, fetches: the opcode a raw
\* construction was given, the errno it stored and the fetches it issued;
\* st, idx, copied: the status a label operation read after its submit, the
\* indexes at which it read DEVICE_ERRORS, and whether it copied output;
\* sends, seen: the send ioctls it issued and the command as the device got
\* it; length, offset, src: what the caller passed, src being the contents
\* of its buffer; dst: the contents of that buffer after the call; clean:
\* the call met no failure; prev: the label operation before it, when that
\* was a Zero that returned 0; first: what cxl_memdev_get_first or
\* cxl_memdev_get_next returned; freed: the allocations a cxl_unref freed;
\* ran, offered: whether a cxl_memdev_get_first ran the enumeration, and the
\* entries the discovery would have found; scan, rets: the entries an
\* enumeration found and what add_cxl_memdev returned for each; view, data,
\* field: the pointer a cmd_get_void getter returned, whether a cmd_get_int
\* getter read the output buffer, and the field it found there; refs,
\* unrefs: the ref and unref calls that returned, for the Context and for
\* the Command, when threads make them; raced: the objects on which a call
\* of one thread began while a call of another was under way
NoLast ==
  [op |-> "none", rc |-> 0, id |-> 0, inp |-> NULL, outp |-> NULL,
   caps |-> <<>>, rcs |-> <<>>, ts |-> <<>>,
   opcode |-> 0, errno |-> 0, fetches |-> 0, wrote |-> <<>>,
   st |-> <<>>, idx |-> <<>>, copied |-> FALSE,
   sends |-> 0, seen |-> <<>>, length |-> 0, offset |-> 0, src |-> <<>>,
   dst |-> <<>>, clean |-> FALSE, prev |-> [op |-> "none", rc |-> 0],
   first |-> NULL, freed |-> 0, ran |-> FALSE, offered |-> 0,
   scan |-> <<>>, rets |-> <<>>,
   view |-> NULL, data |-> FALSE, field |-> 0,
   refs |-> [ctx |-> 0, cmd |-> 0], unrefs |-> [ctx |-> 0, cmd |-> 0],
   raced |-> {}]

Did(op, rc) == [NoLast EXCEPT !.op = op, !.rc = rc]

Device(pm, cat) ==
  [payload_max |-> pm, catalog |-> cat, major |-> 250, minor |-> 0,
   lsa_size |-> 0, lsa |-> <<>>]

Devices ==
  UNION {{Device(pm, cat) : cat \in Catalogs(pm)} : pm \in 0..MaxPayload}

\* what a query may meet: the first allocation fails; or the first
\* transport operation fails; or the second allocation fails; or the second
\* transport operation ends in any way. What follows a failure is never met
QueryEnvs(d) ==
  LET ok == TransportOk(d)
      E(ok1, t1, ok2, t2) == [ok1 |-> ok1, t1 |-> t1, ok2 |-> ok2, t2 |-> t2]
  IN {E(FALSE, ok, TRUE, ok)}
     \cup {E(TRUE, t, TRUE, ok) : t \in Transports(d) \ {ok}}
     \cup {E(TRUE, ok, FALSE, ok)}
     \cup {E(TRUE, ok, TRUE, t) : t \in Transports(d)}

SendEnvs == [ok_send : BOOLEAN, ok_in : BOOLEAN, ok_out : BOOLEAN]

\* what the device may answer to a send: status 0 or 1 here, and all or
\* none of the output offered
DevAnswers == [retval : {0, 1}, full : BOOLEAN]

\* sizes a caller may pass to the set-payload functions, relative to the
\* device maximum: negative, zero, the maximum and one more
CallerSizes(d) == {-1, 0, d.payload_max, d.payload_max + 1}

Init ==
  /\ dev \in Devices
  /\ cmd = NoCmd
  /\ heap = HeapInit
  /\ pc = "idle"
  /\ req = 0
  /\ last = NoLast
  /\ ctx = NoCtx

(* ------------- cxl_cmd_new_generic, one step per call it makes --------- *)

GenericNew(cmd_id, ok) ==
  /\ pc = "idle" /\ cmd.addr = NULL
  /\ LET r == cxl_cmd_new(heap, ok) IN
     /\ cmd' = r.cmd
     /\ heap' = r.heap
     /\ pc' = IF r.cmd.addr = NULL THEN "idle" ELSE "gen_query"
     /\ req' = IF r.cmd.addr = NULL THEN 0 ELSE cmd_id
     /\ last' = [Did("cmd_new", 0) EXCEPT !.id = cmd_id]
  /\ UNCHANGED <<dev, ctx, ctx>>

GenericQuery(e) ==
  /\ pc = "gen_query"
  /\ LET r == cxl_cmd_do_query(cmd, heap, e, dev) IN
     /\ cmd' = r.cmd
     /\ heap' = r.heap
     /\ pc' = IF r.rc # 0 THEN "gen_fail" ELSE "gen_validate"
     /\ last' = [Did("do_query", r.rc) EXCEPT !.caps = r.caps,
                   !.rcs = r.rcs, !.ts = r.ts]
  /\ UNCHANGED <<dev, req, ctx>>

GenericValidate ==
  /\ pc = "gen_validate"
  /\ LET r == cxl_cmd_validate(cmd, req) IN
     /\ cmd' = r.cmd
     /\ pc' = IF r.rc # 0 THEN "gen_fail" ELSE "gen_alloc"
     /\ last' = [Did("validate", r.rc) EXCEPT !.id = req]
  /\ UNCHANGED <<dev, heap, req, ctx>>

GenericAllocSend(e) ==
  /\ pc = "gen_alloc"
  /\ LET r == cxl_cmd_alloc_send(cmd, heap, req, e, dev) IN
     /\ cmd' = r.cmd
     /\ heap' = r.heap
     /\ pc' = IF r.rc # 0 THEN "gen_fail" ELSE "idle"
     /\ last' = [Did("alloc_send", r.rc) EXCEPT !.id = req]
  /\ UNCHANGED <<dev, req, ctx>>

GenericFail ==
  /\ pc = "gen_fail"
  /\ LET r == cxl_cmd_unref(cmd, heap) IN
     /\ cmd' = r.cmd
     /\ heap' = r.heap
  /\ pc' = "idle"
  /\ req' = 0
  /\ last' = Did("fail", 0)
  /\ UNCHANGED <<dev, ctx, ctx>>

(* --------------- the public operations on a returned Command ----------- *)

Held == pc = "idle" /\ cmd.addr # NULL

\* a Command in state Ok that has no send structure yet is never submitted.
\* last.ts: the transport that do_cmd met, when submit called it;
\* last.wrote: the status the device wrote, when the ioctl reached it
Submit(t, dv) ==
  /\ Held /\ cmd.sends < MaxSends
  /\ cmd.query_status = "Ok" => cmd.send.addr # NULL
  /\ LET r == cxl_cmd_submit(cmd, t, dev, dv) IN
     /\ cmd' = r.cmd
     /\ last' = [Did("submit", r.rc) EXCEPT
                   !.ts = IF cmd.query_status = "Ok" THEN <<t>> ELSE <<>>,
                   !.wrote = IF r.issued /\ t.ioctl_errno = 0
                               THEN <<dv.retval>> ELSE <<>>]
  /\ UNCHANGED <<dev, heap, pc, req, ctx>>

SetInputPayload(buf, size, ok) ==
  /\ Held
  /\ LET r == cxl_cmd_set_input_payload(cmd, heap, buf, size, ok, dev) IN
     /\ cmd' = r.cmd
     /\ heap' = r.heap
     /\ last' = Did("set_input", r.rc)
  /\ UNCHANGED <<dev, pc, req, ctx>>

SetOutputPayload(buf, size, ok) ==
  /\ Held
  /\ LET r == cxl_cmd_set_output_payload(cmd, heap, buf, size, ok, dev) IN
     /\ cmd' = r.cmd
     /\ heap' = r.heap
     /\ last' = Did("set_output", r.rc)
  /\ UNCHANGED <<dev, pc, req, ctx>>

CmdRef ==
  /\ Held /\ cmd.refcount < MaxRefs
  /\ cmd' = cxl_cmd_ref(cmd)
  /\ last' = Did("ref", 0)
  /\ UNCHANGED <<dev, heap, pc, req, ctx>>

CmdUnref ==
  /\ Held
  /\ LET r == cxl_cmd_unref(cmd, heap) IN
     /\ cmd' = r.cmd
     /\ heap' = r.heap
  /\ req' = IF cmd.refcount = 1 THEN 0 ELSE req
  /\ last' = [Did("unref", 0) EXCEPT !.inp = cmd.send.in_payload,
                !.outp = cmd.send.out_payload]
  /\ UNCHANGED <<dev, pc, ctx>>

Next ==
  \/ \E cmd_id \in ReqIds, ok \in BOOLEAN : GenericNew(cmd_id, ok)
  \/ \E e \in QueryEnvs(dev) : GenericQuery(e)
  \/ GenericValidate
  \/ \E e \in SendEnvs : GenericAllocSend(e)
  \/ GenericFail
  \/ \E t \in Transports(dev), dv \in DevAnswers : Submit(t, dv)
  \/ CmdRef
  \/ CmdUnref

Spec == Init /\ [][Next]_vars

(* ------- the set-payload overrides on a Command of a small device ------ *)

\* devices whose catalog holds one command, which declares either an input
\* of the maximum size and the -1 sentinel for its output, or no payload in
\* either direction
PayloadDevices ==
  UNION {{Device(pm, CatalogOf(pm, 1, 3, 1)), Device(pm, CatalogOf(pm, 1, 2, 2))} :
           pm \in 0..MaxPayload}

InitPayload ==
  /\ dev \in PayloadDevices
  /\ cmd = NoCmd
  /\ heap = HeapInit
  /\ pc = "idle"
  /\ req = 0
  /\ last = NoLast
  /\ ctx = NoCtx

NextPayload ==
  \/ \E ok \in BOOLEAN : GenericNew(1, ok)
  \/ \E e \in QueryEnvs(dev) : GenericQuery(e)
  \/ GenericValidate
  \/ \E e \in SendEnvs : GenericAllocSend(e)
  \/ GenericFail
  \/ \E buf \in UserBufs, size \in CallerSizes(dev) :
       SetInputPayload(buf, size, TRUE)
  \/ \E size \in CallerSizes(dev), ok \in BOOLEAN :
       SetInputPayload(NULL, size, ok)
  \/ \E buf \in UserBufs, size \in CallerSizes(dev) :
       SetOutputPayload(buf, size, TRUE)
  \/ \E size \in CallerSizes(dev), ok \in BOOLEAN :
       SetOutputPayload(NULL, size, ok)
  \/ CmdUnref

SpecPayload == InitPayload /\ [][NextPayload]_vars

(* ---- caller-owned payload buffers through the life of a Command ------- *)

NextOwn ==
  \/ \E ok \in BOOLEAN : GenericNew(1, ok)
  \/ \E e \in QueryEnvs(dev) : GenericQuery(e)
  \/ GenericValidate
  \/ \E e \in SendEnvs : GenericAllocSend(e)
  \/ GenericFail
  \/ \E buf \in UserBufs, size \in CallerSizes(dev) :
       SetInputPayload(buf, size, TRUE)
  \/ \E buf \in UserBufs, size \in CallerSizes(dev) :
       SetOutputPayload(buf, size, TRUE)
  \/ \E dv \in DevAnswers : Submit(TransportOk(dev), dv)
  \/ CmdRef
  \/ CmdUnref

SpecOwn == InitPayload /\ [][NextOwn]_vars

(* ------------- the functions applied one at a time (unit) -------------- *)

\* devices whose first command declares the same size in both directions
UnitDevices ==
  UNION {{Device(pm, CatalogOf(pm, n, a, a)) : n \in 0..MaxCmds, a \in 1..4} :
           pm \in 0..MaxPayload}

InitUnit ==
  /\ dev \in UnitDevices
  /\ cmd = NoCmd
  /\ heap = HeapInit
  /\ pc = "idle"
  /\ req = 0
  /\ last = NoLast
  /\ ctx = NoCtx

UnitNew(ok) ==
  /\ cmd.addr = NULL
  /\ LET r == cxl_cmd_new(heap, ok) IN
     /\ cmd' = r.cmd
     /\ heap' = r.heap
  /\ last' = Did("cmd_new", 0)
  /\ UNCHANGED <<dev, pc, req, ctx>>

\* a Command in state NotRun is queried while no fetch was issued for it; a
\* resolved Command is queried any number of times
UnitDoQuery(e) ==
  /\ cmd.addr # NULL
  /\ cmd.query_status = "NotRun" => cmd.fetches = 0
  /\ LET r == cxl_cmd_do_query(cmd, heap, e, dev) IN
     /\ cmd' = r.cmd
     /\ heap' = r.heap
     /\ last' = [Did("do_query", r.rc) EXCEPT !.caps = r.caps,
                   !.rcs = r.rcs, !.ts = r.ts]
  /\ UNCHANGED <<dev, pc, req, ctx>>

\* validate reads the catalog buffer, so it is given one: it follows the
\* query that returned 0, as in cxl_cmd_new_generic
UnitValidate(cmd_id) ==
  /\ cmd.addr # NULL /\ cmd.query.addr # NULL
  /\ cmd.query_status = "NotRun"
  /\ last.op = "do_query" /\ last.rc = 0
  /\ LET r == cxl_cmd_validate(cmd, cmd_id) IN
     /\ cmd' = r.cmd
     /\ last' = [Did("validate", r.rc) EXCEPT !.id = cmd_id]
  /\ UNCHANGED <<dev, heap, pc, req, ctx>>

\* alloc_send reads the entry at the recorded index, so it is given a
\* validated Command; it is given one that has no send structure yet
UnitAllocSend(cmd_id, e) ==
  /\ cmd.addr # NULL /\ cmd.query.addr # NULL
  /\ cmd.query_status = "Ok" /\ cmd.send.addr = NULL
  /\ LET r == cxl_cmd_alloc_send(cmd, heap, cmd_id, e, dev) IN
     /\ cmd' = r.cmd
     /\ heap' = r.heap
     /\ last' = [Did("alloc_send", r.rc) EXCEPT !.id = cmd_id]
  /\ UNCHANGED <<dev, pc, req, ctx>>

NextUnit ==
  \/ \E ok \in BOOLEAN : UnitNew(ok)
  \/ \E e \in QueryEnvs(dev) : UnitDoQuery(e)
  \/ \E cmd_id \in ReqIds : UnitValidate(cmd_id)
  \/ \E cmd_id \in ReqIds, e \in SendEnvs : UnitAllocSend(cmd_id, e)
  \/ \E t \in Transports(dev), dv \in DevAnswers : Submit(t, dv)
  \/ CmdUnref

SpecUnit == InitUnit /\ [][NextUnit]_vars

(* ------------- constructors and operations as whole calls -------------- *)

\* largest opcode a caller passes
MaxOpcode == 2

\* opcodes a caller passes: a negative one, the reserved 0 and valid ones
Opcodes == -1..MaxOpcode

\* what a construction may meet: cxl_cmd_new fails; or the query fails;
\* or the query succeeds and the allocation for send meets anything. What
\* follows a failure is never met
ConstructEnvs(d) ==
  LET okq == [ok1 |-> TRUE, t1 |-> TransportOk(d), ok2 |-> TRUE,
              t2 |-> TransportOk(d)]
      oks == [ok_send |-> TRUE, ok_in |-> TRUE, ok_out |-> TRUE]
      E(ok_new, q, s1) == [ok_new |-> ok_new, q |-> q, s |-> s1]
  IN {E(FALSE, okq, oks)}
     \cup {E(TRUE, q, oks) : q \in QueryEnvs(d) \ {okq}}
     \cup {E(TRUE, okq, s1) : s1 \in SendEnvs}

\* the caller holds what cxl_cmd_new_raw returned (r)
RawReturned(opcode, r) ==
  /\ cmd' = r.cmd
  /\ heap' = r.heap
  /\ req' = IF r.cmd.addr = NULL THEN 0 ELSE CXL_MEM_COMMAND_ID_RAW
  /\ last' = [Did("new_raw", 0) EXCEPT !.opcode = opcode,
                !.errno = r.errno, !.fetches = r.fetches]
  /\ UNCHANGED <<dev, pc, ctx>>

RawNew(opcode, e) ==
  /\ pc = "idle" /\ cmd.addr = NULL
  /\ RawReturned(opcode, cxl_cmd_new_raw(heap, opcode, e, dev))

\* the typed getters called on the Command held: one built with
\* cmd_get_void and one built with cmd_get_int, both for Commands of id N,
\* while the field that the latter decodes holds f
Decode(N, f) ==
  /\ Held /\ cmd.send.addr # NULL
  /\ last' = [Did("decode", cmd_health_get_int(cmd, N, f)) EXCEPT
                !.id = N, !.view = cmd_get_void(cmd, N),
                !.data = cmd_get_int(cmd, N).data, !.field = f]
  /\ UNCHANGED <<dev, cmd, heap, pc, req, ctx>>

\* status codes a device may write: the 23 codes of DEVICE_ERRORS are
\* 0..22, here 0, 1, the first and the last failure code; and codes that
\* the table does not hold, one negative and one past its end
StatusCodes == {-1, 0, 1, 2, 22, 23}

\* the device writes any of these and produces all the output offered
AnyAnswers == [retval : StatusCodes, full : {TRUE}]

\* the device asks for a retry or reports that it is busy
RetryAnswers == [retval : RetryCodes, full : {TRUE}]


(* -------------------- label storage area operations -------------------- *)

\* largest label area, and largest length a caller passes
MaxLsa == 2

\* bits of the model's unsigned int and int; size_t is wider
UintBits == 4
UINT_MOD == 2 ^ UintBits

\* conversion of a size_t to unsigned int and to int
to_uint(x) == x % UINT_MOD
to_int(x) ==
  IF x % UINT_MOD >= UINT_MOD \div 2 THEN (x % UINT_MOD) - UINT_MOD
  ELSE x % UINT_MOD

\* a label area holds bytes 0 and 1; FILL is what a caller's destination
\* buffer holds before a Get
FILL == 2
Zeros(n) == [i \in 1..n |-> 0]
Filled(n) == [i \in 1..n |-> FILL]
Min(a, b) == IF a <= b THEN a ELSE b

\* the first n bytes of the buffer whose contents are src
Take(src, n) == [i \in 1..n |-> IF i <= Len(src) THEN src[i] ELSE FILL]

\* the buffer whose contents were src, after out was written at its start
Overlay(src, out) ==
  [i \in 1..Len(src) |-> IF i <= Len(out) THEN out[i] ELSE src[i]]

\* a device that stores what SET_LSA writes and returns it on GET_LSA; it
\* moves no byte outside its label area lsa. GET_LSA: inp is the offset and
\* the length asked for, room the output size offered
DevLsaRead(lsa, inp, room) ==
  LET n == Min(Min(inp.length, room), Len(lsa) - inp.offset) IN
  [i \in 1..(IF n < 0 THEN 0 ELSE n) |-> lsa[inp.offset + i]]

\* SET_LSA: inp is the offset and the data
DevLsaWrite(lsa, inp) ==
  [i \in 1..Len(lsa) |->
     IF inp.offset < i /\ i <= inp.offset + Len(inp.data)
       THEN inp.data[i - inp.offset] ELSE lsa[i]]

\* what lsa_op returns and leaves: crashed when the process did not survive
\* the call; st: the status read after a submit that the transport carried;
\* idx: the indexes at which DEVICE_ERRORS was read; copied: memcpy of the
\* output to the caller's buffer ran; fetches, sends: the ioctls issued;
\* seen: the command as the device got it; out: the bytes the device put
\* into the output buffer; stored: the label area after the device stored
LsaRes(h, rc) ==
  [heap |-> h, rc |-> rc, crashed |-> FALSE, st |-> <<>>, idx |-> <<>>,
   copied |-> FALSE, fetches |-> 0, sends |-> 0, seen |-> <<>>,
   out |-> <<>>, stored |-> <<>>]

\* the out and out_free labels: unref the Command, free the zero buffer
lsa_out(c, h, zp) == free(cxl_cmd_unref(c, h).heap, zp)

\* lsa_op returns rc through the out label
lsa_return(c, h, zp, rc) ==
  [LsaRes(lsa_out(c, h, zp), rc) EXCEPT !.fetches = c.fetches,
                                        !.sends = c.sends]

\* the send structure as the device gets it, inp being the contents of its
\* input payload
LsaSeen(c, inp) ==
  [id |-> c.send.id, inp |-> inp, in_size |-> c.send.in_size,
   out_size |-> c.send.out_size]

\* what the device did with the command it got, when it answered with
\* status 0
lsa_device(r, seen, d) ==
  IF r.st # <<0>> THEN r
  ELSE IF seen.id = CXL_MEM_COMMAND_ID_GET_LSA /\ "length" \in DOMAIN seen.inp
    THEN [r EXCEPT !.out = DevLsaRead(d.lsa, seen.inp, seen.out_size)]
  ELSE IF seen.id = CXL_MEM_COMMAND_ID_SET_LSA /\ "data" \in DOMAIN seen.inp
    THEN [r EXCEPT !.stored = <<DevLsaWrite(d.lsa, seen.inp)>>]
  ELSE r

\* lsa_op after cxl_cmd_submit returned sb, for the zero buffer zp.
\* e.log: the log priority lets err() format its message; e.ub: what the
\* read of DEVICE_ERRORS past its bounds, and the use of what it read as a
\* string, does to the process
lsa_submitted(sb, seen, h, op, zp, e, d) ==
  LET st == cxl_cmd_get_mbox_status(sb.cmd)
      reads == IF e.log /\ st # 0 THEN <<st>> ELSE <<>>
      rc == IF sb.rc < 0 THEN sb.rc ELSE IF st # 0 THEN -ENXIO ELSE 0
  IN
  IF sb.rc >= 0 /\ e.log /\ st \notin 0..LAST_DEVICE_ERROR /\ e.ub = "crash"
    THEN [LsaRes(h, 0) EXCEPT !.crashed = TRUE, !.st = <<st>>,
                              !.idx = reads, !.seen = <<seen>>]
  ELSE lsa_device([lsa_return(sb.cmd, h, zp, rc) EXCEPT
                     !.st = IF sb.rc < 0 THEN <<>> ELSE <<st>>,
                     !.idx = IF sb.rc < 0 THEN <<>> ELSE reads,
                     !.copied = (sb.rc >= 0 /\ st = 0 /\ op = "get_lsa"),
                     !.seen = IF sb.rc < 0 THEN <<>> ELSE <<seen>>],
                  seen, d)

\* LSA_OP_GET after cxl_cmd_set_output_payload returned so; inp is what
\* cxl_cmd_new_get_lsa stored in the input payload
lsa_get_output_set(so, inp, e, d) ==
  IF so.rc # 0
    THEN lsa_return(so.cmd, so.heap, NULL, so.rc)
    ELSE lsa_submitted(cxl_cmd_submit(so.cmd, e.t, d, e.dv),
                       LsaSeen(so.cmd, inp), so.heap, "get_lsa", NULL, e, d)

\* LSA_OP_GET after cxl_cmd_new_generic returned g. cxl_cmd_new_get_lsa
\* takes offset and length as unsigned int and stores them through
\* send_cmd->in.payload without looking at it: a catalog entry that declares
\* no input leaves it NULL. cxl_cmd_set_output_payload takes the length as
\* an int
lsa_get_created(g, buf, length, offset, e, d) ==
  IF g.cmd.addr = NULL
    THEN [LsaRes(g.heap, -ENOMEM) EXCEPT !.fetches = g.fetches]
  ELSE IF g.cmd.send.in_payload = NULL
    THEN [LsaRes(g.heap, 0) EXCEPT !.crashed = TRUE,
                                   !.fetches = g.fetches]
  ELSE lsa_get_output_set(
         cxl_cmd_set_output_payload(g.cmd, g.heap, buf, to_int(length),
                                    TRUE, d),
         [offset |-> to_uint(offset), length |-> to_uint(length)], e, d)

lsa_op_get(h, buf, length, offset, e, d) ==
  lsa_get_created(
    cxl_cmd_new_generic(h, CXL_MEM_COMMAND_ID_GET_LSA, e.c, d),
    buf, length, offset, e, d)

\* cxl_cmd_new_set_lsa after cxl_cmd_set_input_payload returned si: on a
\* failure it drops the Command and lsa_op reports -ENOMEM. inp is the
\* offset and the bytes copied behind the header
lsa_set_input_set(si, inp, op, zp, e, d) ==
  IF si.rc # 0
    THEN lsa_return(si.cmd, si.heap, zp, -ENOMEM)
    ELSE lsa_submitted(cxl_cmd_submit(si.cmd, e.t, d, e.dv),
                       LsaSeen(si.cmd, inp), si.heap, op, zp, e, d)

\* cxl_cmd_new_set_lsa after cxl_cmd_new_generic returned g; length and
\* offset are its unsigned int parameters, src the contents of lsa_buf
lsa_set_created(g, op, zp, length, offset, src, e, d) ==
  IF g.cmd.addr = NULL
    THEN [LsaRes(free(g.heap, zp), -ENOMEM) EXCEPT !.fetches = g.fetches]
  ELSE lsa_set_input_set(
         cxl_cmd_set_input_payload(g.cmd, g.heap, NULL,
                                   to_int(SET_LSA_HDR + length), e.ok_in, d),
         [offset |-> offset, data |-> Take(src, length)], op, zp, e, d)

\* LSA_OP_SET, and LSA_OP_ZERO once it has its zero buffer zp (NULL for
\* LSA_OP_SET)
lsa_op_set(h, op, zp, length, offset, src, e, d) ==
  lsa_set_created(
    cxl_cmd_new_generic(h, CXL_MEM_COMMAND_ID_SET_LSA, e.c, d),
    op, zp, to_uint(length), to_uint(offset), src, e, d)

\* LSA_OP_ZERO after calloc returned z, and LSA_OP_SET, for which z holds no
\* buffer: LSA_OP_ZERO falls through to LSA_OP_SET with its zero buffer
lsa_zero_allocated(z, h, op, length, offset, src, e, d) ==
  IF op = "zero_lsa" /\ z.p = NULL THEN LsaRes(h, -ENOMEM)
  ELSE lsa_op_set(z.heap, op, z.p, length, offset, src, e, d)

\* lsa_length as it would be if the length 0 were passed on as it is
lsa_length_asis(op, length, d) == length

\* lsa_length as it would be if only LSA_OP_GET took 0 for the whole area
lsa_length_get_only(op, length, d) ==
  IF length = 0 /\ op = "get_lsa" THEN d.lsa_size ELSE length

\* the length 0 stands for the whole label area, for LSA_OP_GET and
\* LSA_OP_ZERO
lsa_length(op, length, d) ==
  IF length = 0 /\ op # "set_lsa" THEN d.lsa_size ELSE length

\* lsa_op after the length was resolved; src: the contents of *buf
lsa_op_length(h, op, buf, length, offset, src, e, d) ==
  IF op = "get_lsa" THEN lsa_op_get(h, buf, length, offset, e, d)
  ELSE lsa_zero_allocated(
         IF op = "zero_lsa" THEN calloc(h, "zero", length, e.ok_zero)
         ELSE [p |-> NULL, heap |-> h],
         h, op, length, offset,
         IF op = "zero_lsa" THEN Zeros(length) ELSE src, e, d)

\* lsa_op(memdev, op, buf, length, offset)
lsa_op(h, op, buf, length, offset, src, e, d) ==
  IF op # "zero_lsa" /\ buf = NULL THEN LsaRes(h, -EINVAL)
  ELSE lsa_op_length(h, op, buf, lsa_length(op, length, d), offset, src, e, d)

cxl_memdev_zero_lsa(h, e, d) == lsa_op(h, "zero_lsa", NULL, 0, 0, <<>>, e, d)

cxl_memdev_set_lsa(h, buf, length, offset, src, e, d) ==
  lsa_op(h, "set_lsa", buf, length, offset, src, e, d)

cxl_memdev_get_lsa(h, buf, length, offset, src, e, d) ==
  lsa_op(h, "get_lsa", buf, length, offset, src, e, d)

\* what a label operation may meet: the construction fails, at cxl_cmd_new,
\* at either catalog fetch or at an allocation for send; or an allocation
\* of its own fails; or the transport of the submit fails; or
\* the device answers with any status, and then the read past the table
\* may end the process, or the log priority keeps err() from reading the
\* table. What follows a failure is never met
LsaEnvOk(d) ==
  [c |-> [ok_new |-> TRUE,
          q |-> [ok1 |-> TRUE, t1 |-> TransportOk(d), ok2 |-> TRUE,
                 t2 |-> TransportOk(d)],
          s |-> [ok_send |-> TRUE, ok_in |-> TRUE, ok_out |-> TRUE]],
   ok_zero |-> TRUE, ok_in |-> TRUE, t |-> TransportOk(d), dv |-> NoDv,
   log |-> TRUE, ub |-> "none"]

LsaEnvs(d) ==
  LET ok == LsaEnvOk(d)
  IN {[ok EXCEPT !.c.ok_new = FALSE], [ok EXCEPT !.c.q.ok1 = FALSE],
      [ok EXCEPT !.c.q.t2.ioctl_errno = EINVAL]}
     \cup {[ok EXCEPT !.c.s = s] : s \in SendEnvs}
     \cup {[ok EXCEPT !.ok_zero = FALSE], [ok EXCEPT !.ok_in = FALSE]}
     \cup {[ok EXCEPT !.t = t] : t \in Transports(d)}
     \cup {[ok EXCEPT !.dv = dv] : dv \in AnyAnswers}
     \cup {[ok EXCEPT !.dv = dv, !.ub = "crash"] :
             dv \in {a \in AnyAnswers :
                       a.retval \notin 0..LAST_DEVICE_ERROR}}
     \cup {[ok EXCEPT !.dv = dv, !.log = FALSE] :
             dv \in {a \in AnyAnswers : a.retval \in {1, 23}}}

\* the lengths a caller passes: the whole area, one byte, every byte
Lengths == {0, 1, MaxLsa}

\* devices whose catalog holds the two label commands, or only the first,
\* or none, with every size a catalog declares; the label area holds zeros
\* and is one byte shorter than the longest length a caller passes, so that
\* behind the header of SET_LSA it fits in the largest payload maximum
LsaDevices ==
  {[d EXCEPT !.lsa_size = MaxLsa - 1, !.lsa = Zeros(MaxLsa - 1)] :
     d \in UnitDevices}

InitLsa ==
  /\ dev \in LsaDevices
  /\ cmd = NoCmd
  /\ heap = HeapInit
  /\ pc = "idle"
  /\ req = 0
  /\ last = NoLast
  /\ ctx = NoCtx

\* one call of a label operation; the Command it builds is gone when it
\* returns. src: the contents of the caller's buffer before the call; clean:
\* the call met no failure; prev: the call before it when that was a Zero
\* that returned 0, where that is kept
NoPrev == [op |-> "none", rc |-> 0]
Prev(l) ==
  IF l.op = "zero_lsa" /\ l.rc = 0 THEN [op |-> l.op, rc |-> l.rc]
  ELSE NoPrev

LsaDone(op, length, offset, src, clean, prev, r) ==
  /\ heap' = r.heap
  /\ pc' = IF r.crashed THEN "crashed" ELSE "idle"
  /\ dev' = IF r.stored = <<>> THEN dev ELSE [dev EXCEPT !.lsa = r.stored[1]]
  /\ last' = [Did(op, r.rc) EXCEPT !.st = r.st, !.idx = r.idx,
                !.copied = r.copied, !.fetches = r.fetches,
                !.sends = r.sends, !.seen = r.seen,
                !.length = length, !.offset = offset, !.src = src,
                !.dst = Overlay(src, r.out), !.clean = clean,
                !.prev = prev]
  /\ UNCHANGED <<cmd, req, ctx>>

LsaGet(buf, length, offset, e, prev) ==
  /\ pc = "idle"
  /\ LsaDone("get_lsa", length, offset, Filled(MaxLsa), e = LsaEnvOk(dev),
             prev,
             cxl_memdev_get_lsa(heap, buf, length, offset, Filled(MaxLsa), e,
                                dev))

LsaSet(buf, length, offset, src, e, prev) ==
  /\ pc = "idle"
  /\ LsaDone("set_lsa", length, offset, src, e = LsaEnvOk(dev), prev,
             cxl_memdev_set_lsa(heap, buf, length, offset, src, e, dev))

LsaZero(e, prev) ==
  /\ pc = "idle"
  /\ LsaDone("zero_lsa", 0, 0, <<>>, e = LsaEnvOk(dev), prev,
             cxl_memdev_zero_lsa(heap, e, dev))

\* a call without a buffer meets nothing
LsaMet(buf, d) == IF buf = NULL THEN {LsaEnvOk(d)} ELSE LsaEnvs(d)

NextLsa ==
  \/ \E buf \in UserBufs \cup {NULL}, length \in Lengths :
       \E e \in LsaMet(buf, dev) : LsaGet(buf, length, 0, e, NoPrev)
  \/ \E buf \in UserBufs \cup {NULL}, length \in Lengths :
       \E e \in LsaMet(buf, dev) : LsaSet(buf, length, 0, Zeros(MaxLsa), e,
                                           NoPrev)
  \/ \E e \in LsaEnvs(dev) : LsaZero(e, NoPrev)

SpecLsa == InitLsa /\ [][NextLsa]_vars

(* ------------------------ a raw-opcode wrapper ------------------------- *)

\* CXL_MEM_COMMAND_ID_SET_EVENT_INTERRUPT_POLICY_OPCODE, as an opcode of the
\* model, and ..._PAYLOAD_IN_SIZE in the unit of the model's payload sizes
POLICY_OPCODE == 1
POLICY_IN_SIZE == 1

\* what cxl_memdev_set_event_interrupt_policy leaves: the heap, what it
\* returns, whether the process died in it; st, idx: the status it read and
\* the indexes at which it read DEVICE_ERRORS; id: the id it found in the
\* send structure at its check after the submit, 0 when it made no check
PolicyRes(h, rc) ==
  [heap |-> h, rc |-> rc, crashed |-> FALSE, st |-> <<>>, idx |-> <<>>,
   id |-> 0]

\* after cxl_cmd_submit returned sb: the status is printed with its
\* DEVICE_ERRORS string whatever the log priority. A return through the
\* out label drops the reference; the return for another id does not
policy_submitted(sb, h, e) ==
  LET st == cxl_cmd_get_mbox_status(sb.cmd) IN
  IF sb.rc < 0 THEN PolicyRes(cxl_cmd_unref(sb.cmd, h).heap, sb.rc)
  ELSE IF st # 0
    THEN IF st \notin 0..LAST_DEVICE_ERROR /\ e.ub = "crash"
           THEN [PolicyRes(h, 0) EXCEPT !.crashed = TRUE, !.st = <<st>>,
                                        !.idx = <<st>>]
           ELSE [PolicyRes(cxl_cmd_unref(sb.cmd, h).heap, -ENXIO) EXCEPT
                   !.st = <<st>>, !.idx = <<st>>]
  ELSE IF sb.cmd.send.id # CXL_MEM_COMMAND_ID_RAW
    THEN [PolicyRes(h, -EINVAL) EXCEPT !.st = <<st>>,
                                       !.id = sb.cmd.send.id]
  ELSE [PolicyRes(cxl_cmd_unref(sb.cmd, h).heap, 0) EXCEPT
          !.st = <<st>>, !.id = sb.cmd.send.id]

\* after the calloc of the input buffer returned a: the size of the
\* catalog entry is overwritten, the buffer replaces the one the Command
\* owned, and the Command is submitted
policy_allocated(c, a, e, d) ==
  IF a.p = NULL THEN PolicyRes(a.heap, -ENOMEM)
  ELSE policy_submitted(
         cxl_cmd_submit(
           [c EXCEPT !.query.commands[c.query_idx + 1].size_in = POLICY_IN_SIZE,
                     !.input_payload = a.p,
                     !.send.in_payload = a.p,
                     !.send.in_size = POLICY_IN_SIZE],
           e.t, d, e.dv),
         a.heap, e)

\* after cxl_cmd_new_raw returned g
policy_created(g, e, d) ==
  IF g.cmd.addr = NULL THEN PolicyRes(g.heap, -ENOMEM)
  ELSE policy_allocated(g.cmd, calloc(g.heap, "in", POLICY_IN_SIZE, e.ok_in),
                        e, d)

\* e.c: what the construction meets; e.ok_in: whether the calloc of the
\* input buffer succeeds; e.t, e.dv: the transport and the device's answer;
\* e.ub: what the read of DEVICE_ERRORS past its end does
cxl_memdev_set_event_interrupt_policy(h, e, d) ==
  policy_created(cxl_cmd_new_raw(h, POLICY_OPCODE, e.c, d), e, d)

\* the wrapper called by a caller that holds no Command
SetEventInterruptPolicy(e) ==
  /\ pc = "idle" /\ cmd.addr = NULL
  /\ LET r == cxl_memdev_set_event_interrupt_policy(heap, e, dev) IN
     /\ heap' = r.heap
     /\ pc' = IF r.crashed THEN "crashed" ELSE "idle"
     /\ last' = [Did("set_event_interrupt_policy", r.rc) EXCEPT
                   !.st = r.st, !.idx = r.idx, !.id = r.id]
  /\ UNCHANGED <<dev, cmd, req, ctx>>

NextOps ==
  \/ \E opcode \in Opcodes, e \in ConstructEnvs(dev) : RawNew(opcode, e)
  \/ \E t \in Transports(dev), dv \in AnyAnswers \cup RetryAnswers :
       Submit(t, dv)
  \/ CmdUnref
  \/ \E N \in ReqIds, f \in FieldValues : Decode(N, f)
  \/ \E e \in LsaEnvs(dev) : SetEventInterruptPolicy(e)

SpecOps == InitUnit /\ [][NextOps]_vars

(* ------------------ label storage area: what is stored ----------------- *)

\* the catalog entries the driver declares for the label commands: GET_LSA
\* takes its offset and length and returns as much as the device allows,
\* SET_LSA takes a header and data of any length and returns nothing
LsaCatalog ==
  <<Entry(CXL_MEM_COMMAND_ID_GET_LSA, 1, -1),
    Entry(CXL_MEM_COMMAND_ID_SET_LSA, -1, 0)>>

\* contents of n bytes: all 1, and 1 and 0 in turn
Patterns(n) == {[i \in 1..n |-> 1], [i \in 1..n |-> i % 2]}

\* label areas of no byte, one byte and MaxLsa bytes, under a payload
\* maximum that holds less than the area, the area, and the area behind
\* the header of SET_LSA
LsaSizes == {0, 1, MaxLsa}
DataDevices ==
  UNION {{[Device(pm, LsaCatalog) EXCEPT !.lsa_size = n, !.lsa = l] :
            pm \in {1, MaxLsa, MaxLsa + SET_LSA_HDR},
            l \in Patterns(n) \cup {Zeros(n)}} :
           n \in LsaSizes}

\* offsets a caller passes: in the area, and the first that unsigned int
\* does not hold
Offsets == {0, 1, UINT_MOD}

\* the device finds the request it gets within its label area. It answers
\* such a request with status 0 unless the step meets a failing device
InArea(op, length, offset, d) ==
  to_uint(offset) + to_uint(lsa_length(op, length, d)) <= d.lsa_size

\* what a call meets: nothing, a device that answers Invalid Input, a send
\* ioctl that fails, or no memory for the zero buffer
DataEnvs(d) ==
  LET ok == LsaEnvOk(d)
  IN {ok, [ok EXCEPT !.dv.retval = 2], [ok EXCEPT !.t.ioctl_errno = EINVAL],
      [ok EXCEPT !.ok_zero = FALSE]}

InitLsaData ==
  /\ dev \in DataDevices
  /\ cmd = NoCmd
  /\ heap = HeapInit
  /\ pc = "idle"
  /\ req = 0
  /\ last = NoLast
  /\ ctx = NoCtx

NextLsaData ==
  \/ \E buf \in UserBufs, length \in Lengths, offset \in Offsets :
       /\ InArea("get_lsa", length, offset, dev)
       /\ \E e \in DataEnvs(dev) :
            LsaGet(buf, length, offset, e, Prev(last))
  \/ \E buf \in UserBufs, length \in Lengths, offset \in Offsets :
       /\ InArea("set_lsa", length, offset, dev)
       /\ \E src \in Patterns(MaxLsa), e \in DataEnvs(dev) :
            LsaSet(buf, length, offset, src, e, Prev(last))
  \/ \E e \in DataEnvs(dev) : LsaZero(e, Prev(last))

SpecLsaData == InitLsaData /\ [][NextLsaData]_vars

(* ------------------- the Context and its device list ------------------ *)

\* what an enumeration may find: up to MaxDevs entries, their ids repeated
\* or not, for at most one of which add_cxl_memdev makes no handle
ScanIds == 0..MaxDevs
Scans ==
  UNION {{[i \in 1..n |-> [id |-> ids[i],
                            out |-> IF i = k THEN o ELSE "ok"]] :
            ids \in [1..n -> ScanIds], k \in 0..n,
            o \in AddOutcomes \ {"ok"}} :
           n \in 0..MaxDevs}

InitCtx ==
  /\ dev = Device(MaxPayload, <<>>)
  /\ cmd = NoCmd
  /\ heap = HeapInit
  /\ pc = "idle"
  /\ req = 0
  /\ last = NoLast
  /\ ctx = NoCtx

\* cxl_new(&ctx) by a caller that holds no Context
CtxNew(ok, kmod) ==
  /\ ctx.addr = NULL
  /\ LET r == cxl_new(heap, ok, kmod) IN
     /\ ctx' = r.ctx
     /\ heap' = r.heap
     /\ last' = Did("cxl_new", r.rc)
  /\ UNCHANGED <<dev, cmd, pc, req>>

\* cxl_ref(ctx), also of no Context
CtxRef ==
  /\ ctx.refcount < MaxCtxRefs
  /\ ctx' = cxl_ref(ctx)
  /\ last' = Did("cxl_ref", 0)
  /\ UNCHANGED <<dev, cmd, heap, pc, req>>

\* cxl_unref(ctx), also of no Context
CtxUnref ==
  /\ LET r == cxl_unref(ctx, heap) IN
     /\ ctx' = r.ctx
     /\ heap' = r.heap
     /\ last' = [Did("cxl_unref", 0) EXCEPT
                   !.freed = Cardinality({a \in LibAddrs :
                                            /\ heap.cell[a].live
                                            /\ ~r.heap.cell[a].live})]
  /\ UNCHANGED <<dev, cmd, pc, req>>

\* cxl_memdev_get_first(ctx) while the discovery would find scan
CtxGetFirst(scan) ==
  /\ ctx.addr # NULL
  /\ LET r == cxl_memdev_get_first(ctx, heap, scan) IN
     /\ ctx' = r.ctx
     /\ heap' = r.heap
     /\ last' = [Did("get_first", 0) EXCEPT
                   !.first = r.ret, !.ran = (ctx.memdevs_init = 0),
                   !.offered = Len(scan),
                   !.scan = IF ctx.memdevs_init = 0 THEN scan ELSE <<>>,
                   !.rets = r.rets]
  /\ UNCHANGED <<dev, cmd, pc, req>>

\* cxl_memdev_get_next(memdev) on the handle that the access before
\* returned; the walk keeps what the enumeration before it found
CtxGetNext ==
  /\ ctx.addr # NULL
  /\ \E i \in DOMAIN ctx.memdevs : ctx.memdevs[i].addr = last.first
  /\ last' = [Did("get_next", 0) EXCEPT
                !.first = cxl_memdev_get_next(ctx, last.first),
                !.scan = last.scan, !.rets = last.rets]
  /\ UNCHANGED <<dev, cmd, heap, pc, req, ctx>>

NextCtx ==
  \/ \E ok \in BOOLEAN, kmod \in BOOLEAN : CtxNew(ok, kmod)
  \/ CtxRef
  \/ CtxUnref
  \/ \E scan \in Scans : CtxGetFirst(scan)
  \/ CtxGetNext

SpecCtx == InitCtx /\ [][NextCtx]_vars

(* ------- two threads on the counts of one Context and one Command ------ *)

\* Neither cxl_ref, cxl_unref, cxl_cmd_ref nor cxl_cmd_unref locks: each
\* reads the count and writes it back changed, and a step of another
\* thread may come between. pc[t]: where thread t is: in no call (idle), or
\* in a ref or an unref of obj between its read, which found tmp, and its
\* write; holds: the references the thread holds, which a caller neither
\* drops nor uses once they are gone. No object is given more than
\* MaxCtxRefs references in its life
Threads == {1, 2}

RaceCount(o) == IF o = "ctx" THEN ctx.refcount ELSE cmd.refcount
RaceLive(o) == IF o = "ctx" THEN ctx.addr # NULL ELSE cmd.addr # NULL

\* thread 1 made the Context and the Command and took a second reference
\* on each, which it gave to thread 2
InitRace ==
  /\ dev = Device(MaxPayload, <<>>)
  /\ LET c == cxl_new(HeapInit, TRUE, TRUE)
         m == cxl_cmd_new(c.heap, TRUE)
     IN /\ ctx = cxl_ref(c.ctx)
        /\ cmd = cxl_cmd_ref(m.cmd)
        /\ heap = m.heap
  /\ pc = [t \in Threads |->
            [at |-> "idle", obj |-> "ctx", tmp |-> 0,
             holds |-> [ctx |-> 1, cmd |-> 1]]]
  /\ req = 0
  /\ last = [NoLast EXCEPT !.refs = [ctx |-> 1, cmd |-> 1]]

\* thread t enters op (ref or unref) on o and reads the count
RaceLoad(t, o, op) ==
  /\ pc[t].at = "idle" /\ RaceLive(o)
  /\ pc[t].holds[o] >= 1
  /\ op = "ref" =>
       last.refs[o] + Cardinality({u \in Threads :
                                    pc[u].at = "ref" /\ pc[u].obj = o})
         < MaxCtxRefs
  /\ pc' = [pc EXCEPT ![t] =
              [at |-> op, obj |-> o, tmp |-> RaceCount(o),
               holds |-> [pc[t].holds EXCEPT
                            ![o] = IF op = "unref" THEN @ - 1 ELSE @]]]
  /\ last' = [last EXCEPT
                !.op = "load",
                !.raced = IF \E u \in Threads \ {t} :
                               pc[u].at # "idle" /\ pc[u].obj = o
                            THEN @ \cup {o} ELSE @]
  /\ UNCHANGED <<dev, cmd, heap, req, ctx>>

\* thread t writes the count it read, changed, and finishes its call; an
\* unref tests what it wrote
RaceStore(t) ==
  LET o == pc[t].obj
      op == pc[t].at
      c == [ctx EXCEPT !.refcount = pc[t].tmp]
      m == [cmd EXCEPT !.refcount = pc[t].tmp]
      r == IF o = "ctx"
             THEN IF op = "ref" THEN [ctx |-> cxl_ref(c), heap |-> heap]
                  ELSE cxl_unref(c, heap)
             ELSE IF op = "ref" THEN [cmd |-> cxl_cmd_ref(m), heap |-> heap]
                  ELSE cxl_cmd_unref(m, heap)
  IN
  /\ op # "idle" /\ RaceLive(o)
  /\ ctx' = IF o = "ctx" THEN r.ctx ELSE ctx
  /\ cmd' = IF o = "cmd" THEN r.cmd ELSE cmd
  /\ heap' = r.heap
  /\ pc' = [pc EXCEPT ![t].at = "idle",
                      ![t].holds[o] = IF op = "ref" THEN @ + 1 ELSE @]
  /\ last' = [last EXCEPT
                !.op = op,
                !.refs[o] = IF op = "ref" THEN @ + 1 ELSE @,
                !.unrefs[o] = IF op = "unref" THEN @ + 1 ELSE @]
  /\ UNCHANGED <<dev, req>>

\* thread t finds that the object it is writing to was freed under it
RaceStoreFreed(t) ==
  /\ pc[t].at # "idle" /\ ~RaceLive(pc[t].obj)
  /\ pc' = [pc EXCEPT ![t].at = "idle"]
  /\ last' = [last EXCEPT !.op = "use_after_free"]
  /\ UNCHANGED <<dev, cmd, heap, req, ctx>>

NextRace ==
  \/ \E t \in Threads, o \in {"ctx", "cmd"}, op \in {"ref", "unref"} :
       RaceLoad(t, o, op)
  \/ \E t \in Threads : RaceStore(t)
  \/ \E t \in Threads : RaceStoreFreed(t)

SpecRace == InitRace /\ [][NextRace]_vars

(* ------------- a Command on a device of the Context's list ------------- *)

\* the device behind every handle: its RAW command declares no payloads
BoundDevice ==
  Device(MaxPayload, CatalogOf(MaxPayload, CXL_MEM_COMMAND_ID_RAW, 1, 1))

\* enumerations of up to MaxDevs devices of different ids, in which
\* add_cxl_memdev makes a handle for every entry
BoundScans ==
  {[i \in 1..n |-> [id |-> i - 1, out |-> "ok"]] : n \in 0..MaxDevs}

\* cxl_cmd_new(memdev) keeps the address of the handle in the Command it
\* made, and nothing more; g: what the construction on it returned
cxl_cmd_new_on(g, m) ==
  IF g.cmd.addr = NULL THEN g ELSE [g EXCEPT !.cmd.memdev = m]

InitBound ==
  /\ dev = BoundDevice
  /\ cmd = NoCmd
  /\ heap = HeapInit
  /\ pc = "idle"
  /\ req = 0
  /\ last = NoLast
  /\ ctx = NoCtx

\* cxl_cmd_new_raw(memdev, opcode) on a handle of the Context's list
BoundNew(m, opcode, e) ==
  /\ pc = "idle" /\ cmd.addr = NULL
  /\ \E i \in DOMAIN ctx.memdevs : ctx.memdevs[i].addr = m
  /\ RawReturned(opcode,
                 cxl_cmd_new_on(cxl_cmd_new_raw(heap, opcode, e, dev), m))

\* cxl_cmd_submit(cmd). It reads the handle cmd->memdev: once cxl_unref
\* has freed the handle that is a read of freed memory, after which the
\* call goes on as if the handle were there (ub = "none") or the program
\* is gone (ub = "crash")
BoundSubmit(t, dv, ub) ==
  /\ Held
  /\ IF heap.cell[cmd.memdev].live \/ ub = "none"
       THEN Submit(t, dv)
       ELSE /\ pc' = "crashed"
            /\ last' = Did("use_after_free", 0)
            /\ UNCHANGED <<dev, cmd, heap, req, ctx>>

NextBound ==
  \/ \E ok \in BOOLEAN, kmod \in BOOLEAN : CtxNew(ok, kmod)
  \/ CtxRef
  \/ CtxUnref
  \/ \E scan \in BoundScans : CtxGetFirst(scan)
  \/ \E m \in LibAddrs, opcode \in Opcodes, e \in ConstructEnvs(dev) :
       BoundNew(m, opcode, e)
  \/ \E dv \in DevAnswers, ub \in {"none", "crash"} :
       BoundSubmit(TransportOk(dev), dv, ub)
  \/ CmdUnref

SpecBound == InitBound /\ [][NextBound]_vars

(* ------------------------------- claims ------------------------------- *)

\* C1 (SpecUnit): cxl_cmd_submit invokes the send ioctl only on a Command in
\* state Ok. On a Command in state Unsupported it returns -EOPNOTSUPP, on one
\* in state NotRun -EINVAL, and in both cases no ioctl is issued (neither
\* the send count nor the fetch count moves) and the device status recorded
\* in the Command is left as it was.
C1_SubmitOnlyWhenOk ==
  [][last'.op = "submit" =>
       /\ cmd.query_status = "Unsupported" =>
            /\ last'.rc = -EOPNOTSUPP
            /\ cmd'.sends = cmd.sends /\ cmd'.fetches = cmd.fetches
            /\ cxl_cmd_get_mbox_status(cmd') = cxl_cmd_get_mbox_status(cmd)
       /\ cmd.query_status = "NotRun" =>
            /\ last'.rc = -EINVAL
            /\ cmd'.sends = cmd.sends /\ cmd'.fetches = cmd.fetches
            /\ cxl_cmd_get_mbox_status(cmd') = cxl_cmd_get_mbox_status(cmd)
       /\ cmd'.sends # cmd.sends => cmd.query_status = "Ok"]_vars

\* a Command that validation left Unsupported was submitted and refused
\* after its two fetches, with no send issued
C1_Witness ==
  /\ last.op = "submit" /\ last.rc = -EOPNOTSUPP
  /\ cmd.query_status = "Unsupported"
  /\ cmd.fetches = 2 /\ cmd.sends = 0

\* C2 (Spec): whatever the device catalog, while cxl_cmd_new_generic works
\* for a command id that the catalog does not hold, the Command never owns
\* or points to an input or output payload buffer and no such buffer is
\* allocated, the Command is never in state Ok, the constructor never
\* reaches the allocation for send nor returns the Command, and validation,
\* when the query lets it run, returns -EOPNOTSUPP and leaves the Command
\* in state Unsupported.
C2_AbsentIdUnsupported ==
  (req # 0 /\ req \notin CatalogIds(dev.catalog)) =>
    /\ cmd.input_payload = NULL /\ cmd.output_payload = NULL
    /\ cmd.send.in_payload = NULL /\ cmd.send.out_payload = NULL
    /\ \A a \in LibAddrs : heap.cell[a].kind \notin {"in", "out"}
    /\ cmd.send.addr = NULL
    /\ cmd.query_status # "Ok"
    /\ pc # "gen_alloc" /\ ~Held
    /\ last.op = "validate" =>
         /\ last.rc = -EOPNOTSUPP
         /\ cmd.query_status = "Unsupported"
         /\ pc = "gen_fail"

\* validation ran against a catalog that holds commands, none with the id
\* asked for
C2_Witness ==
  /\ req # 0 /\ req \notin CatalogIds(dev.catalog)
  /\ Len(dev.catalog) > 0
  /\ last.op = "validate" /\ cmd.query_status = "Unsupported"

\* C3 (Spec): the query of a Command in state NotRun issues at most two
\* catalog-fetch ioctls, in this order: the first with capacity 0, the
\* second with capacity equal to the count the device wrote back; the second
\* is issued only when the first alloc_do_query returned 0; a query that
\* returns 0 issued exactly these two; and no other fetch was issued for the
\* Command.
C3_TwoFetchesInOrder ==
  last.op = "do_query" =>
    /\ last.caps \in {<<>>, <<0>>, <<0, Len(dev.catalog)>>}
    /\ Len(last.caps) = 2 => (Len(last.rcs) = 2 /\ last.rcs[1] = 0)
    /\ last.rc = 0 => last.caps = <<0, Len(dev.catalog)>>
    /\ cmd.fetches = Len(last.caps)

\* a query that returned 0 against a catalog that holds commands
C3_Witness ==
  /\ last.op = "do_query" /\ last.rc = 0
  /\ Len(dev.catalog) > 0
  /\ last.caps = <<0, Len(dev.catalog)>>
  /\ cmd.fetches = 2

\* C4 (SpecUnit): the query of a Command whose state is already Ok or
\* Unsupported issues no catalog-fetch ioctl and leaves the cached catalog,
\* with the rest of the Command and the heap, unchanged: it returns 0 for
\* Ok and -EOPNOTSUPP for Unsupported, and the number of fetches issued for
\* the Command stays at two.
C4_QueryIdempotent ==
  [][(last'.op = "do_query" /\ cmd.addr # NULL
        /\ cmd.query_status # "NotRun") =>
       /\ last'.caps = <<>>
       /\ cmd'.fetches = cmd.fetches /\ cmd.fetches = 2
       /\ cmd'.query = cmd.query
       /\ cmd' = cmd /\ heap' = heap
       /\ last'.rc = IF cmd.query_status = "Ok" THEN 0 ELSE -EOPNOTSUPP]_vars

\* a resolved Command was queried again: only a resolved Command makes the
\* query return -EOPNOTSUPP
C4_Witness ==
  /\ last.op = "do_query" /\ last.rc = -EOPNOTSUPP
  /\ cmd.query_status = "Unsupported"
  /\ cmd.fetches = 2 /\ Len(cmd.query.commands) > 0

\* what one transport operation returns, 0 when nothing fails
TransportFailure(t, d) ==
  IF ~t.asprintf THEN -ENOMEM
  ELSE IF t.open_errno # 0 THEN -t.open_errno
  ELSE IF ~(t.fstat /\ t.chr /\ t.major = d.major /\ t.minor = d.minor)
    THEN -ENXIO
  ELSE -t.ioctl_errno

\* C5 (Spec): when either catalog fetch of cxl_cmd_new_generic fails at the
\* transport, the query returns that failure and the Command stays in state
\* NotRun with no send structure; the constructor then goes to its failure
\* exit, whose only step releases the Command: neither validation nor the
\* allocation for send runs.
C5_QueryFailurePropagates ==
  [][/\ (pc = "gen_query" /\ last'.op = "do_query"
           /\ \E i \in DOMAIN last'.ts :
                TransportFailure(last'.ts[i], dev) # 0) =>
          /\ last'.rc = TransportFailure(last'.ts[Len(last'.ts)], dev)
          /\ last'.rc < 0
          /\ cmd'.query_status = "NotRun"
          /\ cmd'.send = NoSend
          /\ pc' = "gen_fail"
     /\ pc = "gen_fail" =>
          /\ last'.op = "fail" /\ pc' = "idle" /\ cmd' = NoCmd]_vars

\* the second fetch failed in the ioctl after the first succeeded
C5_Witness ==
  /\ last.op = "do_query" /\ Len(last.ts) = 2
  /\ last.rc = -EINVAL /\ cmd.fetches = 2
  /\ cmd.query_status = "NotRun" /\ pc = "gen_fail"

\* C6 (Spec): a new Command is in state NotRun; while the Command lives its
\* query state changes only in the validation step, and only from NotRun,
\* to Ok or to Unsupported; it becomes Unsupported only when no entry of
\* the cached catalog carries the requested id, and Ok only when one does.
\* So Ok and Unsupported are terminal and Unsupported never becomes Ok.
C6_QueryStateMachine ==
  [][/\ cmd'.query_status \in QueryStates
     /\ (cmd.addr = NULL /\ cmd'.addr # NULL) =>
          cmd'.query_status = "NotRun"
     /\ (cmd.addr # NULL /\ cmd'.addr # NULL
           /\ cmd'.query_status # cmd.query_status) =>
          /\ cmd.query_status = "NotRun"
          /\ last'.op = "validate"
          /\ cmd'.query_status = "Unsupported" <=>
               (\A i \in 1..cmd.query.n_commands :
                  cmd.query.commands[i].id # req)]_vars

\* a Command in state Ok was submitted, the send failed at the transport,
\* and the Command is still in state Ok
C6_Witness ==
  /\ last.op = "submit" /\ last.rc < 0
  /\ cmd.query_status = "Ok" /\ cmd.sends > 0

\* the allocation for send returned 0 for a Command whose matched catalog
\* entry the device declares with size_out = -1
SentinelAllocated ==
  /\ last.op = "alloc_send" /\ last.rc = 0
  /\ dev.catalog[cmd.query_idx + 1].size_out = -1

\* the Command owns a live output buffer of the given size and the send
\* structure points to it
OwnsOutput(size) ==
  /\ cmd.output_payload \in LibAddrs
  /\ heap.cell[cmd.output_payload] =
       [live |-> TRUE, kind |-> "out", size |-> size]
  /\ cmd.send.out_payload = cmd.output_payload

\* C7 as stated (Spec): for a matched entry that declares size_out = -1 the
\* allocation for send sets the output size to the device maximum and
\* allocates an output buffer of that size, for every device maximum.
C7_SentinelAlwaysAllocates ==
  SentinelAllocated =>
    /\ cmd.send.out_size = dev.payload_max
    /\ OwnsOutput(dev.payload_max)

\* C7 (Spec): for a matched entry that declares size_out = -1 the
\* allocation for send resolves the declared size to exactly the device
\* maximum. When the maximum is positive it allocates an output buffer of
\* exactly that size and sets the output size to it; when the maximum is 0
\* it allocates no output buffer and the output size stays 0.
C7_SentinelResolvesToMax ==
  SentinelAllocated =>
    /\ cmd.query.commands[cmd.query_idx + 1].size_out = dev.payload_max
    /\ cmd.send.out_size = dev.payload_max
    /\ IF dev.payload_max > 0
         THEN OwnsOutput(dev.payload_max)
         ELSE /\ cmd.output_payload = NULL /\ cmd.send.out_payload = NULL
              /\ \A a \in LibAddrs : heap.cell[a].kind # "out"

\* the sentinel was resolved against a positive maximum
C7_Witness ==
  /\ SentinelAllocated
  /\ dev.payload_max > 0
  /\ OwnsOutput(dev.payload_max)

\* C8 as stated (Spec): in every state the input and the output payload
\* size of a Command are each at most the device maximum, whatever the
\* catalog declares.
C8_PayloadWithinMax ==
  /\ cmd.send.in_size <= dev.payload_max
  /\ cmd.send.out_size <= dev.payload_max

\* C9 (SpecPayload): for every device maximum, every buffer and every size,
\* each set-payload function called with size < 0 or size > maximum returns
\* -EINVAL and leaves the Command (payload pointers, sizes, owned buffers)
\* and the heap unchanged; called with 0 <= size <= maximum and a buffer of
\* the caller it returns 0, sets the send structure's pointer to that buffer
\* and its size to size whatever the size was before, and leaves the owned
\* buffers, the other direction and the heap unchanged.
C9_SetPayloadBounds ==
  [][\A buf \in UserBufs \cup {NULL}, size \in CallerSizes(dev),
        ok \in BOOLEAN :
       /\ (last'.op = "set_input" /\ SetInputPayload(buf, size, ok)) =>
            /\ (size < 0 \/ size > dev.payload_max) =>
                 (last'.rc = -EINVAL /\ cmd' = cmd /\ heap' = heap)
            /\ (0 <= size /\ size <= dev.payload_max /\ buf # NULL) =>
                 /\ last'.rc = 0
                 /\ cmd'.send.in_payload = buf /\ cmd'.send.in_size = size
                 /\ cmd' = [cmd EXCEPT !.send.in_payload = buf,
                                       !.send.in_size = size]
                 /\ heap' = heap
       /\ (last'.op = "set_output" /\ SetOutputPayload(buf, size, ok)) =>
            /\ (size < 0 \/ size > dev.payload_max) =>
                 (last'.rc = -EINVAL /\ cmd' = cmd /\ heap' = heap)
            /\ (0 <= size /\ size <= dev.payload_max /\ buf # NULL) =>
                 /\ last'.rc = 0
                 /\ cmd'.send.out_payload = buf /\ cmd'.send.out_size = size
                 /\ cmd' = [cmd EXCEPT !.send.out_payload = buf,
                                       !.send.out_size = size]
                 /\ heap' = heap]_vars

\* a set-payload call was refused on a Command that owns an input buffer
\* from the allocation for send and whose output was pointed at a buffer of
\* the caller, with size 0 in place of the size negotiated
C9_Witness ==
  /\ last.op \in {"set_input", "set_output"} /\ last.rc = -EINVAL
  /\ cmd.input_payload # NULL
  /\ cmd.send.out_payload \in UserBufs /\ cmd.send.out_size = 0
  /\ cmd.output_payload # NULL

\* C10 (SpecOwn): through every sequence of set-payload calls with the
\* caller's buffers, submits, refs and unrefs, destruction of the Command
\* included, every buffer of the caller is still allocated and free() was
\* only ever given live allocations of the library.
C10_CallerBuffersNeverFreed ==
  /\ \A u \in UserBufs : heap.cell[u] =
       [live |-> TRUE, kind |-> "user", size |-> MaxPayload]
  /\ ~heap.dfree

\* the Command was destroyed while both payload pointers of
\* its send structure held buffers of the caller; all that the library
\* allocated is released
C10_Witness ==
  /\ last.op = "unref" /\ cmd.addr = NULL
  /\ last.inp \in UserBufs /\ last.outp \in UserBufs
  /\ \A a \in LibAddrs : ~heap.cell[a].live

\* C11 (Spec): when a step of cxl_cmd_new_generic fails, the failure exit
\* releases every allocation made for the Command: each address that held
\* one is free afterwards, the heap is as it was before the construction,
\* free() was given no address twice, and no Command is left to the
\* caller.
C11_FailureReleasesAll ==
  [][pc = "gen_fail" =>
       /\ last'.op = "fail"
       /\ \A a \in LibAddrs : ~heap'.cell[a].live
       /\ heap' = HeapInit /\ ~heap'.dfree
       /\ cmd' = NoCmd /\ pc' = "idle" /\ req' = 0]_vars

\* the allocation for send failed on the output buffer after the catalog
\* buffer, the send structure and the input buffer were allocated
C11_Witness ==
  /\ pc = "gen_fail"
  /\ last.op = "alloc_send" /\ last.rc = -ENOMEM
  /\ cmd.query.addr # NULL /\ cmd.send.addr # NULL
  /\ cmd.input_payload # NULL /\ cmd.output_payload = NULL
  /\ heap.cell[cmd.input_payload].live

NodeOpened(t) == t.asprintf /\ t.open_errno = 0
NodeIsMemdev(t, d) ==
  t.fstat /\ t.chr /\ t.major = d.major /\ t.minor = d.minor

\* C13 (Spec): in every transport operation, of a submit or of a catalog
\* fetch, that opened a node which is not the character device with the
\* major and minor numbers the handle recorded, the operation returns
\* -ENXIO and no ioctl is invoked; an ioctl is invoked only in an operation
\* that opened the node and found it to be that device.
C13_NodeIdentityChecked ==
  [][/\ (last'.op = "submit" /\ cmd.query_status = "Ok") =>
          LET t == last'.ts[1] IN
          /\ (NodeOpened(t) /\ ~NodeIsMemdev(t, dev)) =>
               /\ last'.rc = -ENXIO
               /\ cmd'.sends = cmd.sends /\ cmd' = cmd
          /\ cmd'.sends # cmd.sends =>
               (NodeOpened(t) /\ NodeIsMemdev(t, dev))
     /\ (pc = "gen_query" /\ last'.op = "do_query") =>
          LET ts == last'.ts IN
          /\ \A i \in DOMAIN ts :
               (NodeOpened(ts[i]) /\ ~NodeIsMemdev(ts[i], dev)) =>
                 /\ last'.rc = -ENXIO
                 /\ i = Len(ts) /\ Len(last'.caps) = i - 1
          /\ cmd'.fetches =
               Cardinality({i \in DOMAIN ts :
                 NodeOpened(ts[i]) /\ NodeIsMemdev(ts[i], dev)})]_vars

\* a submit was refused for the node's identity before any send was issued
C13_Witness ==
  /\ last.op = "submit" /\ last.rc = -ENXIO
  /\ cmd.query_status = "Ok" /\ cmd.sends = 0
  /\ last.ts[1].minor # dev.minor

\* C14 (Spec): after every step, whatever the transport operations of the
\* queries and submits met (ioctl success, ioctl failure, identity
\* mismatch, failure to open), no descriptor that they opened is still
\* open.
C14_DescriptorsClosed == cmd.fds = 0

\* the second fetch of a query found a node that is not the device, after
\* the first fetch succeeded
C14_Witness ==
  /\ last.op = "do_query" /\ last.rc = -ENXIO
  /\ Len(last.ts) = 2 /\ cmd.fetches = 1
  /\ cmd.fds = 0

\* C15 (SpecOps): what cxl_cmd_submit returns for a Command in state Ok is
\* decided by the transport operation alone: it is the failure of the path
\* allocation, of open, of the node verification or of the ioctl when one
\* of them failed, and negative exactly then; whenever the device was
\* reached and wrote a status, whichever status, submit returns 0.
C15_SubmitReturnsTransportOutcome ==
  [][(last'.op = "submit" /\ cmd.query_status = "Ok") =>
       LET t == last'.ts[1] IN
       /\ last'.rc = TransportFailure(t, dev)
       /\ last'.rc < 0 <=>
            ~(NodeOpened(t) /\ NodeIsMemdev(t, dev) /\ t.ioctl_errno = 0)
       /\ last'.rc <= 0
       /\ last'.wrote # <<>> => last'.rc = 0]_vars

\* the device answered status 1 and submit returned 0
C15_Witness ==
  /\ last.op = "submit" /\ last.rc = 0
  /\ last.wrote = <<1>> /\ cmd.status = 1

\* C16 (SpecOps): a submit that fails at the transport layer leaves what
\* cxl_cmd_get_mbox_status returns as it was before that submit; a submit
\* that succeeds at the transport layer makes it exactly the status the
\* device wrote.
C16_StatusFollowsDevice ==
  [][(last'.op = "submit" /\ cmd.query_status = "Ok") =>
       IF last'.rc < 0
         THEN cxl_cmd_get_mbox_status(cmd') = cxl_cmd_get_mbox_status(cmd)
         ELSE /\ last'.wrote # <<>>
              /\ cxl_cmd_get_mbox_status(cmd') = last'.wrote[1]]_vars

\* a submit failed in the ioctl after an earlier one had captured a
\* non-zero status, which is still there
C16_Witness ==
  /\ last.op = "submit" /\ last.rc = -EINVAL
  /\ cmd.sends = 2 /\ cxl_cmd_get_mbox_status(cmd) = 22

\* C17 as stated (SpecOps): a typed output accessor called on a Command
\* that has an output buffer hands out the buffer, or a field read from
\* it, only when the last captured status is 0; with status 1 it does not.
C17_OutputOnlyAtStatusZero ==
  (Held /\ cmd.send.addr # NULL /\ cmd.send.out_payload # NULL) =>
    /\ cmd_get_void(cmd, cmd.send.id) # NULL => cmd.status = 0
    /\ cmd_get_int(cmd, cmd.send.id).data => cmd.status = 0

\* a label operation returned or died, after a submit that the transport
\* carried and that left the status s
LsaOps == {"get_lsa", "set_lsa", "zero_lsa"}
LsaAnswered(s) == last.op \in LsaOps /\ last.st = <<s>>

\* C18 (SpecLsa): when a submit that the transport carried leaves status 1,
\* a one-shot device operation surfaces it distinctly: its outcome is
\* neither the one it has for status 0 nor the error outcome, -ENXIO, that
\* it has for the failure codes 2..22.
C18_BackgroundSurfacedDistinctly ==
  LsaAnswered(1) => pc = "idle" /\ last.rc # 0 /\ last.rc # -ENXIO

\* C19 (SpecLsa): no operation reads the 23-entry table DEVICE_ERRORS at an
\* index outside 0..22: a status outside that range is classified as
\* unknown instead.
C19_StatusTableInBounds ==
  last.op \in LsaOps =>
    \A i \in DOMAIN last.idx : last.idx[i] \in 0..LAST_DEVICE_ERROR

\* C20 (SpecLsa): Get, Set and Zero each return -ENXIO whenever the submit
\* was carried by the transport and the device's status is not 0, and Get
\* then copies no output to the caller's buffer.
C20_NonZeroStatusIsENXIO ==
  \A s \in StatusCodes \ {0} :
    LsaAnswered(s) => pc = "idle" /\ last.rc = -ENXIO /\ ~last.copied

\* C21 (SpecLsaData): on a device that stores what SET_LSA writes and
\* returns it on GET_LSA, cxl_memdev_set_lsa of a buffer over the whole label
\* area (offset 0, length the area's size) succeeds when it meets no
\* failure, and a cxl_memdev_get_lsa(offset 0, length 0) that follows it and
\* meets no failure succeeds and leaves in its buffer exactly the bytes that
\* were set.
C21_RoundTrip ==
  [][/\ (/\ last'.op = "set_lsa" /\ last'.clean
         /\ last'.offset = 0 /\ last'.length = dev.lsa_size)
          => last'.rc = 0
     /\ (/\ last.op = "set_lsa" /\ last.rc = 0
         /\ last.offset = 0 /\ last.length = dev.lsa_size
         /\ last'.op = "get_lsa" /\ last'.clean
         /\ last'.offset = 0 /\ last'.length = 0)
          => /\ last'.rc = 0
             /\ Take(last'.dst, dev.lsa_size) = Take(last.src, dev.lsa_size)
    ]_vars

\* C22 (SpecLsaData): a cxl_memdev_get_lsa(offset, length) with length > 0
\* whose send reaches the device hands it a GET_LSA whose input carries
\* exactly that offset and that length and whose output size is exactly
\* length; when the call succeeds the caller's buffer holds exactly the
\* length bytes of the label area that start at offset, and no byte of the
\* buffer beyond length was written.
C22_PartialGet ==
  (last.op = "get_lsa" /\ last.length > 0 /\ last.seen # <<>>) =>
    /\ last.seen[1].inp = [offset |-> last.offset, length |-> last.length]
    /\ last.seen[1].out_size = last.length
    /\ last.rc = 0 =>
         \A i \in DOMAIN last.dst :
           IF i <= last.length
             THEN /\ last.offset + i \in DOMAIN dev.lsa
                  /\ last.dst[i] = dev.lsa[last.offset + i]
             ELSE last.dst[i] = last.src[i]

\* C23 (SpecLsaData): a cxl_memdev_zero_lsa that returns 0 has left every
\* byte of the label area zero, whatever the area held; a Get of the whole
\* area (offset 0, length 0 or the area's size) that follows it succeeds
\* when it meets no failure, and when it succeeds it returns as many bytes
\* as the area has, all zero.
C23_ZeroThenGetAllZero ==
  /\ (last.op = "zero_lsa" /\ last.rc = 0) => dev.lsa = Zeros(dev.lsa_size)
  /\ (/\ last.op = "get_lsa" /\ last.prev.op = "zero_lsa"
      /\ last.offset = 0 /\ last.length \in {0, dev.lsa_size})
       => /\ last.clean => last.rc = 0
          /\ last.rc = 0 =>
               Take(last.dst, dev.lsa_size) = Zeros(dev.lsa_size)

\* a Get of a whole area of MaxLsa bytes returned zeros right after a Zero
\* that had returned 0
C23_Witness ==
  /\ last.op = "get_lsa" /\ last.prev.op = "zero_lsa" /\ last.rc = 0
  /\ last.offset = 0 /\ last.length = 0
  /\ dev.lsa_size = MaxLsa /\ last.dst = Zeros(MaxLsa)

\* C24 (SpecLsa): whatever a cxl_memdev_zero_lsa meets, a successful submit,
\* a failed construction of the Command, a transport failure of the submit
\* or a status other than 0, its zero buffer has been freed exactly once
\* when the operation is over: no zero buffer is left allocated and none
\* was freed twice.
C24_ZeroBufferFreedOnce ==
  last.op = "zero_lsa" =>
    /\ \A a \in LibAddrs : ~(heap.cell[a].live /\ heap.cell[a].kind = "zero")
    /\ ~heap.dfree

\* C25 (SpecLsaData): for every label area size and payload maximum, and
\* whatever the call meets, cxl_memdev_get_lsa(offset, 0) does what
\* cxl_memdev_get_lsa(offset, label area size) does: the same command reaches
\* the device, with the same length in its input and the same output size,
\* and the call returns the same value and the same bytes and leaves the
\* same heap.
C25_ZeroLengthIsWholeArea ==
  \A buf \in UserBufs, offset \in Offsets, e \in DataEnvs(dev) :
    cxl_memdev_get_lsa(heap, buf, 0, offset, Filled(MaxLsa), e, dev)
      = cxl_memdev_get_lsa(heap, buf, dev.lsa_size, offset, Filled(MaxLsa),
                           e, dev)

\* a Get with length 0 succeeded on an area of MaxLsa bytes, and the device
\* was asked for MaxLsa bytes with room for MaxLsa bytes
C25_Witness ==
  /\ last.op = "get_lsa" /\ last.length = 0 /\ last.rc = 0
  /\ dev.lsa_size = MaxLsa
  /\ last.seen # <<>>
  /\ last.seen[1].inp.length = MaxLsa /\ last.seen[1].out_size = MaxLsa
  /\ Len(last.dst) = MaxLsa /\ \A i \in 1..MaxLsa : last.dst[i] = dev.lsa[i]

\* C26 (SpecLsa): a cxl_memdev_get_lsa or cxl_memdev_set_lsa that is given an
\* invalid argument, no buffer or a length above the device's payload
\* maximum, and meets no failure of its environment returns a failure
\* without having issued a catalog fetch or a send.
C26_InvalidArgumentBeforeDevice ==
  (/\ last.op \in {"get_lsa", "set_lsa"} /\ last.clean
   /\ \/ last.rc = -EINVAL
      \/ lsa_length(last.op, last.length, dev) > dev.payload_max)
    => last.rc < 0 /\ last.fetches = 0 /\ last.sends = 0

\* C27 (SpecPayload): when cxl_cmd_set_input_payload or
\* cxl_cmd_set_output_payload, called with no buffer, fails for want of
\* memory, it leaves the Command as it was: the buffer the Command owns, the
\* payload pointer of the send structure and its size are those from before
\* the call, and so is the heap, so that the buffer owned before is still
\* the one released with the Command.
C27_AllocationFailureKeepsState ==
  [][(last'.op \in {"set_input", "set_output"} /\ last'.rc = -ENOMEM)
       => cmd' = cmd /\ heap' = heap]_vars

\* C28 (SpecOps): no call of cxl_cmd_submit issues more than one send ioctl,
\* whatever transport it meets and whatever status the device writes, the
\* statuses 5 (Retry Required) and 6 (Busy) among them, and it issues no
\* catalog fetch; a Command has cost at most two catalog fetches when it is
\* built, so that a construction and one submit issue at most two catalog
\* fetches and one send.
C28_NoAutomaticRetry ==
  [][/\ cmd'.fetches <= 2
     /\ last'.op = "submit" =>
          /\ cmd'.sends \in {cmd.sends, cmd.sends + 1}
          /\ cmd'.fetches = cmd.fetches
          /\ (last'.wrote # <<>> => cmd'.sends = cmd.sends + 1)]_vars

\* the first submit of a Command was answered with Retry Required: one send
\* and the two fetches of the construction have been issued
C28_Witness ==
  /\ last.op = "submit" /\ last.rc = 0 /\ last.wrote = <<5>>
  /\ cmd.status = 5 /\ cmd.sends = 1 /\ cmd.fetches = 2

\* the Context c and the handles in its list are allocated, each once, and
\* its count is at least 1; or there is no Context and nothing of one is
\* left allocated; and nothing was freed twice
CtxSound(c, h) ==
  /\ ~h.dfree
  /\ c.addr # NULL =>
       /\ c.refcount >= 1
       /\ h.cell[c.addr].live /\ h.cell[c.addr].kind = "ctx"
       /\ \A i \in DOMAIN c.memdevs :
            /\ h.cell[c.memdevs[i].addr].live
            /\ h.cell[c.memdevs[i].addr].kind = "memdev"
            /\ \A j \in DOMAIN c.memdevs :
                 c.memdevs[j].addr = c.memdevs[i].addr => j = i
  /\ c.addr = NULL => \A a \in LibAddrs : ~h.cell[a].live

\* C29 (SpecCtx): cxl_new leaves a Context with count 1, cxl_ref adds one
\* and cxl_unref takes one off; a cxl_unref that leaves a count above 0
\* frees nothing, and the one that reaches 0 frees the Context and every
\* handle in its list, each once; no other step frees a handle, and as long
\* as the Context is there its count is at least 1 and its handles are
\* allocated.
C29_ContextLifetime ==
  [][/\ CtxSound(ctx', heap')
     /\ (last'.op = "cxl_new" /\ last'.rc = 0) => ctx'.refcount = 1
     /\ (last'.op = "cxl_ref" /\ ctx.addr # NULL) =>
          ctx'.refcount = ctx.refcount + 1 /\ heap' = heap
     /\ (last'.op = "cxl_unref" /\ ctx.addr # NULL) =>
          IF ctx.refcount = 1
            THEN ctx'.addr = NULL /\ last'.freed = Len(ctx.memdevs) + 1
            ELSE /\ ctx'.refcount = ctx.refcount - 1
                 /\ ctx'.memdevs = ctx.memdevs /\ heap' = heap
     /\ (last'.op # "cxl_unref" /\ ctx.addr # NULL) =>
          \A i \in DOMAIN ctx.memdevs :
            \E j \in DOMAIN ctx'.memdevs : ctx'.memdevs[j] = ctx.memdevs[i]
    ]_vars

\* the last cxl_unref of a Context that held MaxDevs handles freed them and
\* the Context
C29_Witness ==
  /\ last.op = "cxl_unref" /\ last.freed = MaxDevs + 1
  /\ ctx.addr = NULL
  /\ \A a \in LibAddrs : ~heap.cell[a].live

\* C30 (SpecCtx): sysfs_device_parse runs at most once for a Context: the
\* first cxl_memdev_get_first runs it, and every later one, whether the
\* enumeration found handles, found none or made none for an entry, runs it
\* no more, leaves the list and the heap as they were and returns the top
\* of that list; cxl_memdev_get_next never runs it.
C30_EnumeratesOnce ==
  [][/\ ctx'.parses <= 1
     /\ last'.op = "get_first" =>
          /\ ctx'.memdevs_init = 1 /\ ctx'.parses = 1
          /\ last'.first = list_top(ctx'.memdevs)
          /\ ctx.memdevs_init = 0 => ctx'.parses = ctx.parses + 1
          /\ ctx.memdevs_init # 0 =>
               /\ ctx'.parses = ctx.parses
               /\ ctx'.memdevs = ctx.memdevs /\ heap' = heap
     /\ last'.op = "get_next" => ctx' = ctx /\ heap' = heap]_vars

\* a cxl_memdev_get_first after the enumeration, which had left the list
\* empty, returned no handle although the discovery would now find MaxDevs
\* entries
C30_Witness ==
  /\ last.op = "get_first" /\ ~last.ran /\ last.offered = MaxDevs
  /\ ctx.parses = 1 /\ ctx.memdevs = <<>> /\ last.first = NULL

\* C31 (SpecCtx): the list of a Context never holds two handles of one id.
\* In an enumeration, whatever entries it finds, an add_cxl_memdev that
\* makes a handle of an id that is not in the list returns the new handle;
\* one whose id is in the list returns the handle that the first entry of
\* that id was given; after the enumeration the list holds exactly the
\* handles first given, one for each id, and the handles allocated are
\* those of the list: every duplicate and every path buffer has been freed,
\* and none twice.
C31_IdsUnique ==
  [][/\ \A i, j \in DOMAIN ctx'.memdevs :
          ctx'.memdevs[i].id = ctx'.memdevs[j].id => i = j
     /\ (last'.op = "get_first" /\ last'.ran) =>
          LET scan == last'.scan
              rets == last'.rets
              Made(i) == rets[i] # NULL
              FirstSeen(i) ==
                CHOOSE k \in 1..i :
                  /\ scan[k].id = scan[i].id /\ Made(k)
                  /\ \A j \in 1..(k - 1) : ~(scan[j].id = scan[i].id /\ Made(j))
          IN
          /\ Len(rets) = Len(scan)
          /\ \A i \in DOMAIN scan :
               /\ Made(i) <=> scan[i].out = "ok"
               /\ Made(i) => rets[i] = rets[FirstSeen(i)]
               /\ Made(i) =>
                    \E k \in DOMAIN ctx'.memdevs :
                      ctx'.memdevs[k] = [id |-> scan[i].id, addr |-> rets[i]]
          /\ \A k \in DOMAIN ctx'.memdevs :
               \E i \in DOMAIN scan :
                 /\ Made(i) /\ FirstSeen(i) = i
                 /\ ctx'.memdevs[k] = [id |-> scan[i].id, addr |-> rets[i]]
          /\ {a \in LibAddrs : heap'.cell[a].live} =
               {ctx'.addr} \cup {ctx'.memdevs[k].addr : k \in DOMAIN ctx'.memdevs}
          /\ ~heap'.dfree
    ]_vars

\* an enumeration found MaxDevs entries of one id, made a handle for the
\* first and returned that handle for every one of them
C31_Witness ==
  /\ last.op = "get_first" /\ last.ran /\ Len(last.scan) = MaxDevs
  /\ \A i \in DOMAIN last.scan :
       /\ last.scan[i].id = last.scan[1].id
       /\ last.rets[i] = last.rets[1] /\ last.rets[i] # NULL
  /\ Len(ctx.memdevs) = 1 /\ ctx.memdevs[1].addr = last.rets[1]

\* the entries of scan have ids that differ and each made a handle
Discovered(scan) ==
  /\ \A i \in DOMAIN scan : scan[i].out = "ok"
  /\ \A i, j \in DOMAIN scan : scan[i].id = scan[j].id => i = j

\* C32 (SpecCtx): after an enumeration that discovered d1, ..., dn in that
\* order, with ids that differ, cxl_memdev_get_first returns d1 (no handle
\* when n = 0), and cxl_memdev_get_next of di returns the handle discovered
\* next after it, and no handle for dn.
C32_DiscoveryOrder ==
  [][/\ (last'.op = "get_first" /\ last'.ran /\ Discovered(last'.scan)) =>
          last'.first = IF last'.rets = <<>> THEN NULL ELSE last'.rets[1]
     /\ (last'.op = "get_next" /\ Discovered(last.scan)) =>
          \A i \in DOMAIN last.rets :
            last.first = last.rets[i] =>
              last'.first = IF i < Len(last.rets) THEN last.rets[i + 1]
                            ELSE NULL
    ]_vars

\* C33 (SpecOps): a typed getter reads the output buffer, or hands it out,
\* only for a Command whose id is the one the getter is built for and whose
\* captured status is not negative; for a Command of another id the int
\* getter returns a value that is none of the values it returns after
\* decoding a field, and the pointer getter returns no buffer; for a
\* Command of its id with a negative status the int getter returns that
\* status.
C33_DecoderChecksFirst ==
  [][last'.op = "decode" =>
       /\ (last'.data \/ last'.view # NULL) =>
            cmd.send.id = last'.id /\ cmd.status >= 0
       /\ cmd.send.id # last'.id =>
            /\ ~last'.data /\ last'.view = NULL
            /\ last'.rc \notin FieldValues
       /\ (cmd.send.id = last'.id /\ cmd.status < 0) =>
            last'.rc = cmd.status
    ]_vars

\* C34 (SpecRace): as long as no call on an object began while a call of
\* another thread on it was under way, then between calls the count of the
\* object is 1 + refs - unrefs, the object is there while that number is
\* above 0, and it is gone, with all it owned, once the number is 0.
C34_SingleWriterCount ==
  \A o \in {"ctx", "cmd"} :
    (/\ o \notin last.raced
     /\ \A t \in Threads : ~(pc[t].at # "idle" /\ pc[t].obj = o)) =>
      LET n == 1 + last.refs[o] - last.unrefs[o] IN
      IF n > 0 THEN RaceLive(o) /\ RaceCount(o) = n
      ELSE /\ ~RaceLive(o)
           /\ \A a \in LibAddrs :
                heap.cell[a].live => heap.cell[a].kind # o

\* two threads were in cxl_ref at once and one update was lost: both calls
\* returned, and the count of the Context is below 1 + refs - unrefs
C34_Witness ==
  /\ "ctx" \in last.raced
  /\ \A t \in Threads : pc[t].at = "idle"
  /\ ctx.addr # NULL
  /\ last.unrefs["ctx"] = 0
  /\ ctx.refcount < 1 + last.refs["ctx"]

\* C35 (SpecOps): a Command that a public constructor leaves to its caller
\* is in state Ok, holds the catalog of the device in a live buffer and the
\* index of an entry of it, and has a live send structure; a construction
\* that returns no Command leaves the heap as it was; and every submit of
\* such a Command goes to the transport: none ends in the branch for
\* Unsupported or for NotRun.
C35_ReturnedCommandsOk ==
  [][/\ cmd'.addr # NULL =>
          /\ cmd'.query_status = "Ok"
          /\ cmd'.query.addr # NULL /\ heap'.cell[cmd'.query.addr].live
          /\ cmd'.query.n_commands = Len(dev.catalog)
          /\ \A i \in DOMAIN dev.catalog :
               cmd'.query.commands[i].id = dev.catalog[i].id
          /\ cmd'.query_idx \in 0..(Len(dev.catalog) - 1)
          /\ cmd'.send.addr # NULL /\ heap'.cell[cmd'.send.addr].live
     /\ (last'.op = "new_raw" /\ cmd'.addr = NULL) => heap' = heap
     /\ last'.op = "submit" =>
          /\ cmd.query_status = "Ok"
          /\ last'.ts # <<>>
          /\ last'.rc # -EOPNOTSUPP
    ]_vars

\* a construction met a device whose catalog lacks the id and returned no
\* Command: the one it had marked Unsupported is freed
C35_Witness ==
  /\ last.op = "new_raw" /\ last.errno = EOPNOTSUPP /\ last.fetches = 2
  /\ cmd = NoCmd
  /\ \A a \in LibAddrs : ~heap.cell[a].live

C37_PayloadBuffersFreed ==
  [][(last'.op = "unref" /\ cmd.addr # NULL /\ cmd'.addr = NULL) =>
       /\ \A a \in LibAddrs : ~heap'.cell[a].live
       /\ ~heap'.dfree]_vars

\* C38 (SpecOps): a one-shot device operation that constructed a Command
\* drops its reference on every return path, so when the operation returns
\* no Command is allocated that was not allocated before the call.
C38_OneShotDropsCommand ==
  [][(last'.op = "set_event_interrupt_policy" /\ pc' = "idle") =>
       \A a \in LibAddrs :
         (heap'.cell[a].live /\ heap'.cell[a].kind = "cmd") =>
           (heap.cell[a].live /\ heap.cell[a].kind = "cmd")]_vars

\* C39 (SpecBound): constructing, submitting and destroying a Command
\* changes neither the Context (its count, its device list) nor the
\* allocation of the Context or of any handle; and the cxl_unref that takes
\* the count to 0 frees the Context and every handle while leaving a live
\* Command, and everything the Command owns, as it was.
C39_CommandsLeaveContext ==
  [][/\ last'.op \in {"new_raw", "submit", "unref", "use_after_free"} =>
          /\ ctx' = ctx
          /\ \A a \in LibAddrs :
               heap.cell[a].kind \in {"ctx", "memdev"} =>
                 heap'.cell[a] = heap.cell[a]
     /\ (last'.op = "cxl_unref" /\ ctx.refcount = 1) =>
          /\ ctx' = NoCtx
          /\ \A a \in LibAddrs : heap'.cell[a].kind \notin {"ctx", "memdev"}
          /\ cmd' = cmd
          /\ \A a \in LibAddrs :
               heap.cell[a].kind \notin {"ctx", "memdev"} =>
                 heap'.cell[a] = heap.cell[a]]_vars

\* a Command outlives the Context and the handle it was constructed on
C39_Witness ==
  /\ last.op = "cxl_unref" /\ ctx.addr = NULL /\ last.freed >= 2
  /\ cmd.addr # NULL /\ cmd.memdev # NULL
  /\ ~heap.cell[cmd.memdev].live

====
